---- MODULE Spec2Model ----
(***************************************************************************)
(* Model of the openfoodfacts-rust client: the two search query builders   *)
(* (src/src/search.rs) and the versioned URL resolvers (src/src/client.rs).*)
(*                                                                         *)
(* Strings are TLA+ strings, built with \o exactly where the code uses     *)
(* format!().  A builder method takes the builder by value and returns it, *)
(* so each method is an operator from a builder record to a builder        *)
(* record, and the action that models a call replaces q by its result.     *)
(***************************************************************************)
EXTENDS Integers, Sequences, FiniteSets, TLC

VARIABLES
    q,        \* the query builder: [params, sort_by, state]; where two
              \* builders are followed, the pair of them
    calls,    \* history: the builder calls made on q so far, in call order
    out,      \* the list returned by the last params() call, if any
    client,   \* the OffClient: [v, locale]
    res,      \* history: the last client call (resolver, endpoint, search)
              \* and its result
    gets      \* history: the GET requests the transport received during
              \* the call that res records

vars == <<q, calls, out, client, res, gets>>

(***************************************************************************)
(* Bounds.                                                                 *)
(***************************************************************************)
\* Number of builder calls made on one query builder.
MaxCalls == 3

\* Number of builder calls made on each of two query builders.
MaxCallsEach == 2

\* Number of endpoint and search calls made on one client; the URL
\* resolvers are called any number of times before and after them.
MaxEndpointCalls == 1

(***************************************************************************)
(* Option and Result.                                                      *)
(***************************************************************************)
None == [some |-> FALSE]
Some(x) == [some |-> TRUE, val |-> x]

Ok(x) == [ok |-> TRUE, val |-> x]
Err(e) == [ok |-> FALSE, err |-> e]

(***************************************************************************)
(* u32::to_string: decimal text, most significant digit first.             *)
(***************************************************************************)
Digits == <<"0", "1", "2", "3", "4", "5", "6", "7", "8", "9">>

RECURSIVE to_string(_)
to_string(n) ==
    IF n < 10 THEN Digits[n + 1]
    ELSE to_string(n \div 10) \o Digits[(n % 10) + 1]

(***************************************************************************)
(* search.rs: enum Value and its From conversions.                         *)
(***************************************************************************)
Value_String(s) == [kind |-> "String", s |-> s]
Value_Number(n) == [kind |-> "Number", n |-> n]
Value_None == [kind |-> "None"]

(***************************************************************************)
(* search.rs: impl Display for SortBy.                                     *)
(***************************************************************************)
SortBy == {"Popularity", "ProductName", "CreatedDate", "LastModifiedDate", "EcoScore"}

\* Variant of fmt: a criterion without an arm of its own is written as the
\* first one.
SortBy_fmt_ecoscore_missing(s) ==
    CASE s = "ProductName" -> "product_name"
      [] s = "CreatedDate" -> "created_t"
      [] s = "LastModifiedDate" -> "last_modified_t"
      [] OTHER -> "unique_scans_n"

SortBy_fmt(s) ==
    CASE s = "Popularity" -> "unique_scans_n"
      [] s = "ProductName" -> "product_name"
      [] s = "CreatedDate" -> "created_t"
      [] s = "LastModifiedDate" -> "last_modified_t"
      [] s = "EcoScore" -> "ecoscore_score"

(***************************************************************************)
(* search.rs: SearchQuery<S>::sort_by.                                     *)
(***************************************************************************)
\* Variant of sort_by: a sort field that is set is kept.
SearchQuery_sort_by_first_wins(self, sort_by) ==
    IF self.sort_by.some THEN self ELSE [self EXCEPT !.sort_by = Some(sort_by)]

SearchQuery_sort_by(self, sort_by) ==
    [self EXCEPT !.sort_by = Some(sort_by)]

(***************************************************************************)
(* search.rs: SearchQueryV0.                                               *)
(***************************************************************************)
QueryStateV0_default == [criteria_index |-> 0, nutrient_index |-> 0]

SearchQueryV0_new ==
    [params |-> <<>>, sort_by |-> None, state |-> QueryStateV0_default]

\* Variant of criteria: the operator and the value change places.
SearchQueryV0_criteria_swapped(self, criteria, op, value) ==
    LET i == self.state.criteria_index + 1
    IN [self EXCEPT
          !.state.criteria_index = i,
          !.params = @ \o << <<"tagtype_" \o to_string(i), Value_String(criteria)>>,
                             <<"tag_" \o to_string(i), Value_String(value)>>,
                             <<"tag_contains_" \o to_string(i), Value_String(op)>> >>]

SearchQueryV0_criteria(self, criteria, op, value) ==
    LET i == self.state.criteria_index + 1
    IN [self EXCEPT
          !.state.criteria_index = i,
          !.params = @ \o << <<"tagtype_" \o to_string(i), Value_String(criteria)>>,
                             <<"tag_contains_" \o to_string(i), Value_String(op)>>,
                             <<"tag_" \o to_string(i), Value_String(value)>> >>]

\* Variant of ingredient: the "_additives" suffix is given to every name.
SearchQueryV0_ingredient_all_suffixed(self, ingredient, value) ==
    [self EXCEPT
       !.params = Append(@, <<ingredient, Value_String(value \o "_additives")>>)]

SearchQueryV0_ingredient(self, ingredient, value) ==
    [self EXCEPT
       !.params = Append(@, <<ingredient,
                              IF ingredient = "additives"
                              THEN Value_String(value \o "_additives")
                              ELSE Value_String(value)>>)]

\* Variant of nutrient: one counter shared with criteria.
SearchQueryV0_nutrient_shared_index(self, nutriment, op, value) ==
    LET i == self.state.criteria_index + 1
    IN [self EXCEPT
          !.state.criteria_index = i,
          !.params = @ \o << <<"nutriment_" \o to_string(i), Value_String(nutriment)>>,
                             <<"nutriment_compare_" \o to_string(i), Value_String(op)>>,
                             <<"nutriment_value_" \o to_string(i), Value_Number(value)>> >>]

\* Variant of nutrient: the value is kept as the text of its last digit.
SearchQueryV0_nutrient_last_digit(self, nutriment, op, value) ==
    LET i == self.state.nutrient_index + 1
    IN [self EXCEPT
          !.state.nutrient_index = i,
          !.params = @ \o << <<"nutriment_" \o to_string(i), Value_String(nutriment)>>,
                             <<"nutriment_compare_" \o to_string(i), Value_String(op)>>,
                             <<"nutriment_value_" \o to_string(i), Value_Number(value % 10)>> >>]

SearchQueryV0_nutrient(self, nutriment, op, value) ==
    LET i == self.state.nutrient_index + 1
    IN [self EXCEPT
          !.state.nutrient_index = i,
          !.params = @ \o << <<"nutriment_" \o to_string(i), Value_String(nutriment)>>,
                             <<"nutriment_compare_" \o to_string(i), Value_String(op)>>,
                             <<"nutriment_value_" \o to_string(i), Value_Number(value)>> >>]

SearchQueryV0_terms(self, search_terms) ==
    [self EXCEPT !.params = Append(@, <<"search_terms", Value_String(search_terms)>>)]

\* Variant of the loop of params(): an entry whose number is 0 is skipped
\* like a valueless one.
RECURSIVE SearchQueryV0_params_loop_skip_zero(_)
SearchQueryV0_params_loop_skip_zero(ps) ==
    IF ps = <<>> THEN <<>>
    ELSE LET name == Head(ps)[1]
             value == Head(ps)[2]
             rest == SearchQueryV0_params_loop_skip_zero(Tail(ps))
         IN CASE value.kind = "String" -> << <<name, value.s>> >> \o rest
              [] value.kind = "Number" /\ value.n # 0 ->
                   << <<name, to_string(value.n)>> >> \o rest
              [] OTHER -> rest

\* The loop of params(): one output pair per accumulated pair, a Value::None
\* entry being skipped.
RECURSIVE SearchQueryV0_params_loop(_)
SearchQueryV0_params_loop(ps) ==
    IF ps = <<>> THEN <<>>
    ELSE LET name == Head(ps)[1]
             value == Head(ps)[2]
             rest == SearchQueryV0_params_loop(Tail(ps))
         IN CASE value.kind = "String" -> << <<name, value.s>> >> \o rest
              [] value.kind = "Number" -> << <<name, to_string(value.n)>> >> \o rest
              [] value.kind = "None" -> rest

\* Variant of params: the sort field is pushed after the two constant pairs.
SearchQueryV0_params_sort_last(self) ==
    SearchQueryV0_params_loop(self.params)
      \o << <<"action", "process">>, <<"json", "true">> >>
      \o (IF self.sort_by.some
          THEN << <<"sort_by", SortBy_fmt(self.sort_by.val)>> >>
          ELSE <<>>)

\* Variant of params: the two constant pairs open the list.
SearchQueryV0_params_constants_first(self) ==
    << <<"action", "process">>, <<"json", "true">> >>
      \o SearchQueryV0_params_loop(self.params)
      \o (IF self.sort_by.some
          THEN << <<"sort_by", SortBy_fmt(self.sort_by.val)>> >>
          ELSE <<>>)

SearchQueryV0_params(self) ==
    SearchQueryV0_params_loop(self.params)
      \o (IF self.sort_by.some
          THEN << <<"sort_by", SortBy_fmt(self.sort_by.val)>> >>
          ELSE <<>>)
      \o << <<"action", "process">>, <<"json", "true">> >>

(***************************************************************************)
(* search.rs: SearchQueryV2.                                               *)
(***************************************************************************)
QueryStateV2_default == <<>>

SearchQueryV2_new ==
    [params |-> <<>>, sort_by |-> None, state |-> QueryStateV2_default]

\* Variant of criteria: the language code is not used.
SearchQueryV2_criteria_no_lc(self, criteria, value, lc) ==
    [self EXCEPT !.params = Append(@, <<criteria \o "_tags", Value_String(value)>>)]

SearchQueryV2_criteria(self, criteria, value, lc) ==
    IF lc.some
    THEN [self EXCEPT
            !.params = Append(@, <<criteria \o "_tags_" \o lc.val, Value_String(value)>>)]
    ELSE [self EXCEPT
            !.params = Append(@, <<criteria \o "_tags", Value_String(value)>>)]

\* Variant of nutrient: every operator that starts the comparison with "="
\* or is empty is taken for equality.
SearchQueryV2_nutrient_lax_eq(self, nutrient, unit, op, value) ==
    LET param ==
          IF op \in {"=", "=>", ""}
          THEN <<nutrient \o "_" \o unit, Value_Number(value)>>
          ELSE <<nutrient \o "_" \o unit \o op \o to_string(value), Value_None>>
    IN [self EXCEPT !.params = Append(@, param)]

SearchQueryV2_nutrient(self, nutrient, unit, op, value) ==
    LET param ==
          IF op = "="
          THEN <<nutrient \o "_" \o unit, Value_Number(value)>>
          ELSE <<nutrient \o "_" \o unit \o op \o to_string(value), Value_None>>
    IN [self EXCEPT !.params = Append(@, param)]

SearchQueryV2_nutrient_100g(self, nutrient, op, value) ==
    SearchQueryV2_nutrient(self, nutrient, "100g", op, value)

SearchQueryV2_nutrient_serving(self, nutrient, op, value) ==
    SearchQueryV2_nutrient(self, nutrient, "serving", op, value)

\* The loop of params(): one output pair per accumulated pair, a Value::None
\* entry giving the empty string.
RECURSIVE SearchQueryV2_params_loop(_)
SearchQueryV2_params_loop(ps) ==
    IF ps = <<>> THEN <<>>
    ELSE LET name == Head(ps)[1]
             value == Head(ps)[2]
             rest == SearchQueryV2_params_loop(Tail(ps))
         IN CASE value.kind = "String" -> << <<name, value.s>> >> \o rest
              [] value.kind = "Number" -> << <<name, to_string(value.n)>> >> \o rest
              [] value.kind = "None" -> << <<name, "">> >> \o rest

\* Variant of params: the V0 serializer, which skips the valueless entries
\* and closes with the two constant pairs.
SearchQueryV2_params_as_v0(self) == SearchQueryV0_params(self)

SearchQueryV2_params(self) ==
    SearchQueryV2_params_loop(self.params)
      \o (IF self.sort_by.some
          THEN << <<"sort_by", SortBy_fmt(self.sort_by.val)>> >>
          ELSE <<>>)

(***************************************************************************)
(* Locale (crate::locale) and the version markers (crate::types).          *)
(***************************************************************************)
Locale_new(country, language) == [country |-> country, language |-> language]

Locale_default == Locale_new("world", None)

Locale_to_string(l) ==
    IF l.language.some THEN l.country \o "-" \o l.language.val ELSE l.country

Version_version(v) == IF v = "V0" THEN "v0" ELSE "v2"

(***************************************************************************)
(* The url crate, as far as the client uses it: Url::parse of a text with  *)
(* the scheme https and Url::join of a reference to such a URL.  A URL is  *)
(* kept as its serialization, a text.  Texts are read character by         *)
(* character; the characters are those of printable ASCII that a string    *)
(* of this module can hold.  Left undefined, because the client's calls    *)
(* never depend on them: texts with "^" or "|", credentials ("@" before    *)
(* the path), percent signs in a host, IPv6 and IPv4 hosts, punycode       *)
(* labels, and the schemes other than https that have a host.  The error   *)
(* kinds are those of url 2.5, where every forbidden character of a        *)
(* domain is reported by the IDNA step.                                    *)
(***************************************************************************)
At(s, i) == SubSeq(s, i, i)

Chars(s) == {At(s, i) : i \in 1..Len(s)}

From(s, i) == SubSeq(s, i, Len(s))

\* The first position of s holding a character of set, Len(s) + 1 if none.
Position(s, set) ==
    LET P == {i \in 1..Len(s) : At(s, i) \in set}
    IN IF P = {} THEN Len(s) + 1 ELSE CHOOSE i \in P : \A j \in P : i <= j

AsciiLow == " !\"#$%&'()*+,-./0123456789:;<=>?@ABCDEFGHIJKLMNOPQRSTUVWXYZ[\\]^_"
AsciiHigh == "abcdefghijklmnopqrstuvwxyz{|}~"
AsciiUpper == "ABCDEFGHIJKLMNOPQRSTUVWXYZ"
AsciiLower == "abcdefghijklmnopqrstuvwxyz"
AsciiDigit == "0123456789"

Upper == Chars(AsciiUpper)
Digit == Chars(AsciiDigit)

\* The characters a text of the model is made of: the tab, the line feed,
\* the form feed, the carriage return and the ASCII characters from the
\* space to the tilde, less "^", "|" and the grave accent.
Modelled ==
    {"\t", "\n", "\f", "\r", " ", "!", "\"", "#", "$", "%", "&", "'", "(",
     ")", "*", "+", ",", "-", ".", "/", "0", "1", "2", "3", "4", "5", "6",
     "7", "8", "9", ":", ";", "<", "=", ">", "?", "@", "A", "B", "C", "D",
     "E", "F", "G", "H", "I", "J", "K", "L", "M", "N", "O", "P", "Q", "R",
     "S", "T", "U", "V", "W", "X", "Y", "Z", "[", "\\", "]", "_", "a", "b",
     "c", "d", "e", "f", "g", "h", "i", "j", "k", "l", "m", "n", "o", "p",
     "q", "r", "s", "t", "u", "v", "w", "x", "y", "z", "{", "}", "~"}

\* The byte of the ASCII character c, as a percent sign and two
\* hexadecimal digits: AsciiLow starts at byte 32, AsciiHigh at byte 97;
\* the tab is byte 9, the line feed 10, the form feed 12, the carriage
\* return 13.
percent_encode_byte(c) ==
    LET control == Position("\t\n\f\r", {c})
        b == IF c \in Chars(AsciiLow)
             THEN 31 + Position(AsciiLow, {c})
             ELSE IF c \in Chars(AsciiHigh)
             THEN 96 + Position(AsciiHigh, {c})
             ELSE IF control <= 2 THEN 8 + control ELSE 9 + control
        hex == "0123456789ABCDEF"
    IN "%" \o At(hex, (b \div 16) + 1) \o At(hex, (b % 16) + 1)

RECURSIVE utf8_percent_encode(_, _)
utf8_percent_encode(s, set) ==
    IF Chars(s) \cap set = {} THEN s
    ELSE LET c == Head(s)
         IN (IF c \in set THEN percent_encode_byte(c) ELSE c)
            \o utf8_percent_encode(Tail(s), set)

RECURSIVE lowercase(_)
lowercase(s) ==
    IF Chars(s) \cap Upper = {} THEN s
    ELSE LET c == Head(s)
         IN (IF c \in Upper THEN At(AsciiLower, Position(AsciiUpper, {c})) ELSE c)
            \o lowercase(Tail(s))

\* The pieces of s between the characters of set.
RECURSIVE split(_, _)
split(s, set) ==
    LET i == Position(s, set)
    IN IF i > Len(s) THEN <<s>>
       ELSE <<SubSeq(s, 1, i - 1)>> \o split(From(s, i + 1), set)

\* The segments one after the other, separator before each of them.
RECURSIVE join_segments(_, _)
join_segments(segments, separator) ==
    IF segments = <<>> THEN ""
    ELSE separator \o Head(segments) \o join_segments(Tail(segments), separator)

\* The number a text of digits stands for, as far as a port needs it.
RECURSIVE parse_decimal(_, _)
parse_decimal(s, acc) ==
    IF s = "" \/ acc > 65535 THEN acc
    ELSE parse_decimal(Tail(s), 10 * acc + Position(AsciiDigit, {Head(s)}) - 1)

RECURSIVE decimal(_)
decimal(n) ==
    IF n < 10 THEN At(AsciiDigit, n + 1)
    ELSE decimal(n \div 10) \o At(AsciiDigit, (n % 10) + 1)

\* The text that is parsed: the space and the control characters are
\* dropped at both ends, the tab, the line feed and the carriage return
\* wherever they stand.
Input_new(input) ==
    LET c0_control_or_space == {" ", "\t", "\n", "\f", "\r"}
        P == {i \in 1..Len(input) : At(input, i) \notin c0_control_or_space}
        trimmed == IF P = {} THEN ""
                   ELSE SubSeq(input, CHOOSE i \in P : \A j \in P : i <= j,
                                      CHOOSE i \in P : \A j \in P : j <= i)
    IN IF Chars(input) \cap c0_control_or_space = {} THEN input
       ELSE join_segments(split(trimmed, {"\t", "\n", "\r"}), "")

\* The percent-encode sets of the fragment, the path and the query; the
\* form feed is the control character that a parsed text can hold.
FRAGMENT == {"\f", " ", "\"", "<", ">"}
PATH == FRAGMENT \cup {"#", "?", "{", "}"}
SPECIAL_QUERY == {"\f", " ", "\"", "#", "<", ">", "'"}

\* The characters a domain may not hold, once it is percent-decoded.
ForbiddenDomain ==
    {"\f", " ", "#", "/", ":", "<", ">", "?", "@", "[", "\\", "]", "^", "|", "%"}

\* The last label of a domain is a number, decimal or hexadecimal: the
\* host is an IPv4 address.
ends_in_a_number(input) ==
    LET end == IF At(input, Len(input)) = "." THEN Len(input) - 1 ELSE Len(input)
        HexDigit == Digit \cup Chars("abcdefABCDEF")
    IN /\ end >= 1
       /\ At(input, end) \in HexDigit \cup {"x", "X"}
       /\ LET labels == split(SubSeq(input, 1, end), {"."})
              last == labels[Len(labels)]
          IN \/ Chars(last) \subseteq Digit
             \/ /\ Len(last) >= 2
                /\ SubSeq(last, 1, 2) \in {"0x", "0X"}
                /\ Chars(From(last, 3)) \subseteq HexDigit

\* A label of the domain is in punycode.
has_punycode(input) ==
    \E i \in 1..(Len(input) - 3) :
       /\ At(input, i) \in {"x", "X"}
       /\ i = 1 \/ At(input, i - 1) = "."
       /\ lowercase(SubSeq(input, i, i + 3)) = "xn--"

Host_parse(input) ==
    LET chars == Chars(input)
    IN IF input = "" THEN Err("EmptyHost")
       ELSE IF At(input, 1) = "["
       THEN CASE At(input, Len(input)) # "]" -> Err("InvalidIpv6Address")
       ELSE CASE "%" \notin chars ->
                   IF chars \cap ForbiddenDomain # {} THEN Err("IdnaError")
                   ELSE CASE ~ends_in_a_number(input)
                             /\ (chars \cap {"x", "X"} = {} \/ ~has_punycode(input)) ->
                               Ok(IF chars \cap Upper = {} THEN input
                                  ELSE lowercase(input))

\* The host ends at the first colon that is not between square brackets.
RECURSIVE host_end(_, _, _)
host_end(s, i, inside) ==
    IF i > Len(s) THEN i
    ELSE LET c == At(s, i)
         IN IF c = ":" /\ ~inside THEN i
            ELSE host_end(s, i + 1,
                          IF c = "[" THEN TRUE ELSE IF c = "]" THEN FALSE ELSE inside)

\* The port as it is serialized: the default port of https is left out.
parse_port(input) ==
    IF input = "" THEN Ok("")
    ELSE IF Chars(input) \subseteq Digit
    THEN LET port == parse_decimal(input, 0)
         IN IF port > 65535 THEN Err("InvalidPort")
            ELSE IF port = 443 THEN Ok("")
            ELSE Ok(":" \o decimal(port))
    ELSE Err("InvalidPort")

\* The text of a followed by the text of b; the first error is returned as
\* it is, and b is not looked at when a is an error.
TryConcat(a, b) ==
    IF ~a.ok THEN a ELSE IF ~b.ok THEN b ELSE Ok(a.val \o b.val)

parse_host_and_port(input) ==
    LET chars == Chars(input)
        end == IF ":" \in chars THEN host_end(input, 1, FALSE) ELSE Len(input) + 1
    IN CASE "@" \notin chars ->
              TryConcat(Host_parse(SubSeq(input, 1, end - 1)),
                        parse_port(From(input, end + 1)))

\* The segments of a path: a segment ".." removes the segment before it,
\* a segment "." is dropped, every other segment is percent-encoded. A dot
\* may be written "%2e" or "%2E".
RECURSIVE parse_path(_, _)
parse_path(path, segments) ==
    IF segments = <<>> THEN path
    ELSE LET segment == Head(segments)
             last == Len(segments) = 1
             popped == IF path = <<>> THEN <<>> ELSE SubSeq(path, 1, Len(path) - 1)
         IN IF segment \in {"..", "%2e%2e", "%2e%2E", "%2E%2e", "%2E%2E",
                            "%2e.", "%2E.", ".%2e", ".%2E"}
            THEN parse_path(IF last THEN Append(popped, "") ELSE popped, Tail(segments))
            ELSE IF segment \in {".", "%2e", "%2E"}
            THEN parse_path(IF last THEN Append(path, "") ELSE path, Tail(segments))
            ELSE parse_path(Append(path, utf8_percent_encode(segment, PATH)),
                            Tail(segments))

\* input is empty or starts with "?" or "#".
parse_query_and_fragment(input) ==
    LET hash == Position(input, {"#"})
        query == SubSeq(input, 1, hash - 1)
    IN (IF query = "" THEN ""
        ELSE "?" \o utf8_percent_encode(From(query, 2), SPECIAL_QUERY))
       \o (IF hash > Len(input) THEN ""
           ELSE "#" \o utf8_percent_encode(From(input, hash + 1), FRAGMENT))

\* The path, query and fragment of input, the path taken from directory.
parse_path_start(directory, input) ==
    LET end == Position(input, {"?", "#"})
    IN join_segments(parse_path(directory, split(SubSeq(input, 1, end - 1), {"/", "\\"})),
                     "/")
       \o parse_query_and_fragment(From(input, end))

RECURSIVE skip_slashes(_)
skip_slashes(input) ==
    IF input = "" \/ At(input, 1) \notin {"/", "\\"} THEN input
    ELSE skip_slashes(Tail(input))

\* What follows the slashes after "https:": the host and the port, then
\* the path.
after_double_slash(input) ==
    LET end == Position(input, {"/", "?", "#", "\\"})
        slash == end <= Len(input) /\ At(input, end) \in {"/", "\\"}
    IN TryConcat(TryConcat(Ok("https://"),
                           parse_host_and_port(SubSeq(input, 1, end - 1))),
                 Ok(parse_path_start(<<>>, From(input, IF slash THEN end + 1 ELSE end))))

parse_scheme(input) ==
    LET colon == Position(input, {":"})
        scheme == SubSeq(input, 1, colon - 1)
        Alpha == Upper \cup Chars(AsciiLower)
    IN IF /\ colon <= Len(input)
          /\ scheme # ""
          /\ At(scheme, 1) \in Alpha
          /\ Chars(scheme) \subseteq Alpha \cup Digit \cup {"+", "-", "."}
       THEN Some([scheme |-> lowercase(scheme), remaining |-> From(input, colon + 1)])
       ELSE None

\* Every slash and backslash after "https:" is skipped before the host.
Url_parse(input) ==
    LET scheme == parse_scheme(Input_new(input))
    IN CASE Chars(input) \subseteq Modelled ->
              IF ~scheme.some THEN Err("RelativeUrlWithoutBase")
              ELSE CASE scheme.val.scheme = "https" ->
                          after_double_slash(skip_slashes(scheme.val.remaining))

\* The parts of a URL that Url_parse or Url_join gave: the scheme with
\* the host and the port, the path, the query.
split_url(base) ==
    LET slash == 8 + Position(From(base, 9), {"/"})
        tail == From(base, slash)
        end == Position(tail, {"?", "#"})
        rest == From(tail, end)
    IN [authority |-> SubSeq(base, 1, slash - 1),
        path |-> SubSeq(tail, 1, end - 1),
        query |-> SubSeq(rest, 1, Position(rest, {"#"}) - 1)]

\* A reference without a scheme, resolved against base. After "//" the
\* host follows at once; after two slashes one of which is a backslash
\* every further slash is skipped first.
parse_relative(base, input) ==
    LET b == split_url(base)
        segments == split(From(b.path, 2), {"/"})
        directory == SubSeq(segments, 1, Len(segments) - 1)
    IN IF input = "" THEN Ok(b.authority \o b.path \o b.query)
       ELSE IF Len(input) >= 2 /\ Chars(SubSeq(input, 1, 2)) \subseteq {"/", "\\"}
       THEN after_double_slash(IF SubSeq(input, 1, 2) = "//" THEN From(input, 3)
                               ELSE skip_slashes(input))
       ELSE IF At(input, 1) \in {"/", "\\"}
       THEN Ok(b.authority \o parse_path_start(<<>>, From(input, 2)))
       ELSE IF At(input, 1) = "?"
       THEN Ok(b.authority \o b.path \o parse_query_and_fragment(input))
       ELSE IF At(input, 1) = "#"
       THEN Ok(b.authority \o b.path \o b.query \o parse_query_and_fragment(input))
       ELSE Ok(b.authority \o parse_path_start(directory, input))

\* A reference with the scheme of base and fewer than two slashes after it
\* is resolved as if it had no scheme.
Url_join(base, reference) ==
    LET input == Input_new(reference)
        scheme == parse_scheme(input)
    IN CASE Chars(reference) \subseteq Modelled ->
              IF ~scheme.some THEN parse_relative(base, input)
              ELSE IF scheme.val.scheme = "https"
              THEN IF Len(scheme.val.remaining) >= 2
                      /\ Chars(SubSeq(scheme.val.remaining, 1, 2)) \subseteq {"/", "\\"}
                   THEN after_double_slash(skip_slashes(scheme.val.remaining))
                   ELSE parse_relative(base, scheme.val.remaining)
              ELSE CASE /\ scheme.val.scheme \notin {"http", "ws", "wss", "ftp", "file"}
                        /\ scheme.val.remaining = "" \/ At(scheme.val.remaining, 1) # "/"
                        /\ Chars(scheme.val.remaining) \cap {"?", "#", " "} = {} ->
                          Ok(scheme.val.scheme \o ":"
                             \o utf8_percent_encode(scheme.val.remaining, {"\f"}))

(***************************************************************************)
(* client.rs: OffClient<V> and the traits Urls, ApiUrl, SearchUrl.         *)
(***************************************************************************)
OffClient_new(v, locale) == [v |-> v, locale |-> locale]

OffClient_version(self) == Version_version(self.v)

\* Variant of host_with_locale: the client's own locale wins over the
\* locale of the call.
OffClient_host_with_locale_own_first(self, locale) ==
    Url_parse("https://" \o Locale_to_string(self.locale) \o ".openfoodfacts.org/")

OffClient_host_with_locale(self, locale) ==
    Url_parse("https://"
              \o (IF locale.some
                  THEN Locale_to_string(locale.val)
                  ELSE Locale_to_string(self.locale))
              \o ".openfoodfacts.org/")

Urls_base_url(self, locale) == OffClient_host_with_locale(self, locale)

\* base?.join(reference): an error of base is returned as it is.
TryJoin(base, reference) == IF base.ok THEN Url_join(base.val, reference) ELSE base

\* Variant of base_url_world: the client's default locale is used.
Urls_base_url_world_default(self) == OffClient_host_with_locale(self, None)

Urls_base_url_world(self) == OffClient_host_with_locale(self, Some(Locale_default))

Urls_cgi_url(self, locale) ==
    TryJoin(Urls_base_url(self, locale), "cgi/")

\* Variant of api_url: the path of version 0 for every client.
ApiUrl_api_url_v0_only(self, locale) ==
    TryJoin(Urls_base_url(self, locale), "api/v0/")

ApiUrl_api_url(self, locale) ==
    TryJoin(Urls_base_url(self, locale), "api/" \o OffClient_version(self) \o "/")

OffClientV0_search_url(self, locale) ==
    TryJoin(Urls_cgi_url(self, locale), "search.pl")

\* Variant of the V2 search_url: the V0 resolver serves both versions.
OffClientV2_search_url_as_v0(self, locale) == OffClientV0_search_url(self, locale)

OffClientV2_search_url(self, locale) ==
    TryJoin(ApiUrl_api_url(self, locale), "search")

\* The trait method, resolved by the client's type.
SearchUrl_search_url(self, locale) ==
    IF self.v = "V0"
    THEN OffClientV0_search_url(self, locale)
    ELSE OffClientV2_search_url(self, locale)

(***************************************************************************)
(* Output (crate::output): the output options and their whitelist filter.  *)
(***************************************************************************)
Output_new ==
    [locale |-> None, page |-> None, page_size |-> None, fields |-> None,
     nocache |-> None]

bool_to_string(b) == IF b THEN "true" ELSE "false"

Contains(names, n) == \E i \in 1..Len(names) : names[i] = n

\* Variant of params: every option that is set is emitted, allowed or not.
Output_params_unfiltered(self, names) ==
    (IF self.page.some
     THEN << <<"page", to_string(self.page.val)>> >> ELSE <<>>)
    \o (IF self.page_size.some
        THEN << <<"page_size", to_string(self.page_size.val)>> >> ELSE <<>>)
    \o (IF self.fields.some
        THEN << <<"fields", self.fields.val>> >> ELSE <<>>)
    \o (IF self.nocache.some
        THEN << <<"nocache", bool_to_string(self.nocache.val)>> >> ELSE <<>>)

Output_params(self, names) ==
    (IF self.page.some /\ Contains(names, "page")
     THEN << <<"page", to_string(self.page.val)>> >> ELSE <<>>)
    \o (IF self.page_size.some /\ Contains(names, "page_size")
        THEN << <<"page_size", to_string(self.page_size.val)>> >> ELSE <<>>)
    \o (IF self.fields.some /\ Contains(names, "fields")
        THEN << <<"fields", self.fields.val>> >> ELSE <<>>)
    \o (IF self.nocache.some /\ Contains(names, "nocache")
        THEN << <<"nocache", bool_to_string(self.nocache.val)>> >> ELSE <<>>)

\* output.as_ref().and_then(|o| o.locale.as_ref())
OutputLocale(output) == IF output.some THEN output.val.locale ELSE None

\* output.map(|o| o.params(names))
OutputParams(output, names) ==
    IF output.some THEN Some(Output_params(output.val, names)) ELSE None

(***************************************************************************)
(* client.rs: RequestMethods::get and the endpoint methods.  A call gives  *)
(* its result and the requests it handed to the transport; send is what    *)
(* the transport answers: Ok(status) or Err(error).                        *)
(***************************************************************************)
\* Variant of get: a status outside 2xx is turned into an error.
RequestMethods_get_error_for_status(self, url, params, send) ==
    [result |-> IF send.ok
                THEN IF send.val \in 200..299
                     THEN Ok([status |-> send.val, url |-> url, params |-> params])
                     ELSE Err("StatusError")
                ELSE send,
     gets |-> << [url |-> url, params |-> params] >>]

\* Variant of get: a request the transport failed is sent a second time.
RequestMethods_get_retry(self, url, params, send) ==
    [result |-> IF send.ok
                THEN Ok([status |-> send.val, url |-> url, params |-> params])
                ELSE send,
     gets |-> IF send.ok
              THEN << [url |-> url, params |-> params] >>
              ELSE << [url |-> url, params |-> params],
                      [url |-> url, params |-> params] >>]

RequestMethods_get(self, url, params, send) ==
    [result |-> IF send.ok
                THEN Ok([status |-> send.val, url |-> url, params |-> params])
                ELSE send,
     gets |-> << [url |-> url, params |-> params] >>]

\* self.get(url?, params): a call whose URL could not be built returns the
\* error as it is and does not reach get.
TryGet(self, url, params, send) ==
    IF url.ok THEN RequestMethods_get(self, url.val, params, send)
    ELSE [result |-> url, gets |-> <<>>]

\* Variant of taxonomy: the base URL of the client's default locale.
OffClient_taxonomy_default_locale(self, taxonomy, send) ==
    TryGet(self,
           TryJoin(Urls_base_url(self, None),
                   "data/taxonomies/" \o taxonomy \o ".json"),
           None,
           send)

OffClient_taxonomy(self, taxonomy, send) ==
    TryGet(self,
           TryJoin(Urls_base_url_world(self),
                   "data/taxonomies/" \o taxonomy \o ".json"),
           None,
           send)

OffClient_facet(self, facet, output, send) ==
    TryGet(self,
           TryJoin(Urls_base_url(self, OutputLocale(output)),
                   facet \o ".json"),
           OutputParams(output, <<"page", "page_size", "fields", "nocache">>),
           send)

\* Variant of categories: the world locale is forced, as for taxonomy.
OffClient_categories_world(self, output, send) ==
    TryGet(self,
           TryJoin(Urls_base_url_world(self),
                   "categories.json"),
           None,
           send)

OffClient_categories(self, output, send) ==
    TryGet(self,
           TryJoin(Urls_base_url(self, OutputLocale(output)),
                   "categories.json"),
           None,
           send)

\* Variant of nutrients: a URL that cannot be built is replaced by the
\* URL of the world locale.
OffClient_nutrients_fallback_world(self, output, send) ==
    LET first == Urls_cgi_url(self, OutputLocale(output))
        cgi_url == IF first.ok THEN first ELSE Urls_cgi_url(self, Some(Locale_default))
    IN TryGet(self, TryJoin(cgi_url, "nutrients.pl"), None, send)

OffClient_nutrients(self, output, send) ==
    TryGet(self,
           TryJoin(Urls_cgi_url(self, OutputLocale(output)),
                   "nutrients.pl"),
           None,
           send)

OffClient_products_by(self, what, id, output, send) ==
    TryGet(self,
           TryJoin(Urls_base_url(self, OutputLocale(output)),
                   what \o "/" \o id \o ".json"),
           OutputParams(output, <<"page", "page_size", "fields">>),
           send)

\* Variant of product: the whitelist of products_by.
OffClient_product_paged(self, barcode, output, send) ==
    TryGet(self,
           TryJoin(ApiUrl_api_url(self, OutputLocale(output)),
                   "product/" \o barcode),
           OutputParams(output, <<"page", "page_size", "fields">>),
           send)

OffClient_product(self, barcode, output, send) ==
    TryGet(self,
           TryJoin(ApiUrl_api_url(self, OutputLocale(output)),
                   "product/" \o barcode),
           OutputParams(output, <<"fields">>),
           send)

(***************************************************************************)
(* search.rs: SearchQuery::search; client.rs: search and products.         *)
(* query_params is what params() gives for the query passed.               *)
(***************************************************************************)
\* Variant of search: the whitelist of facet, nocache included.
SearchQuery_search_with_nocache(query_params, client_, output, send) ==
    LET output_params ==
           OutputParams(output, <<"page", "page_size", "fields", "nocache">>)
        params == IF output_params.some
                  THEN query_params \o output_params.val
                  ELSE query_params
    IN TryGet(client_, SearchUrl_search_url(client_, OutputLocale(output)),
              Some(params), send)

\* Variant of search: the pairs of the output options are put before the
\* serialized query.
SearchQuery_search_output_first(query_params, client_, output, send) ==
    LET output_params == OutputParams(output, <<"page", "page_size", "fields">>)
        params == IF output_params.some
                  THEN output_params.val \o query_params
                  ELSE query_params
    IN TryGet(client_, SearchUrl_search_url(client_, OutputLocale(output)),
              Some(params), send)

SearchQuery_search(query_params, client_, output, send) ==
    LET output_params == OutputParams(output, <<"page", "page_size", "fields">>)
        params == IF output_params.some
                  THEN query_params \o output_params.val
                  ELSE query_params
    IN TryGet(client_, SearchUrl_search_url(client_, OutputLocale(output)),
              Some(params), send)

OffClientV0_query(self) == SearchQueryV0_new

OffClientV2_query(self) == SearchQueryV2_new

OffClientV0_search(self, query, output, send) ==
    SearchQuery_search(SearchQueryV0_params(query), self, output, send)

OffClientV2_search(self, query, output, send) ==
    SearchQuery_search(SearchQueryV2_params(query), self, output, send)

\* Variant of products: the whitelist of search.
OffClientV2_products_paged(self, barcodes, output, send) ==
    LET output_params == OutputParams(output, <<"page", "page_size", "fields">>)
        params == << <<"code", barcodes>> >>
                    \o (IF output_params.some THEN output_params.val ELSE <<>>)
    IN TryGet(self, SearchUrl_search_url(self, OutputLocale(output)),
              Some(params), send)

OffClientV2_products(self, barcodes, output, send) ==
    LET output_params == OutputParams(output, <<"fields">>)
        params == << <<"code", barcodes>> >>
                    \o (IF output_params.some THEN output_params.val ELSE <<>>)
    IN TryGet(self, SearchUrl_search_url(self, OutputLocale(output)),
              Some(params), send)

(***************************************************************************)
(* Inputs of the V0 builder calls.                                         *)
(***************************************************************************)
CriteriaNames == {"brands", "categories"}
CriteriaOps == {"contains", "xx"}
CriteriaValues == {"cheese"}
IngredientNames == {"additives", "ingredients_from_palm_oil"}
IngredientValues == {"without", ""}
NutrientNames == {"fiber"}
NutrientOpsV0 == {"lt"}
NutrientValues == {0, 500}
SearchTerms == {"cereal"}

(***************************************************************************)
(* The V0 builder as a state machine: a client hands out a new builder,    *)
(* the caller chains calls on it and serializes it.                        *)
(***************************************************************************)
ClientDefault == OffClient_new("V0", Locale_default)

InitV0 ==
    /\ q = SearchQueryV0_new
    /\ calls = <<>>
    /\ out = None
    /\ client = ClientDefault
    /\ res = None
    /\ gets = <<>>

\* The history entry of a call: the method, its arguments, the position in
\* the accumulated list where the call's first pair (if any) lands, and the
\* counters of the builder the call returned.
Call(op, args, ret) ==
    [op |-> op, args |-> args, at |-> Len(q.params) + 1, state |-> ret.state]

Criteria0 ==
    /\ Len(calls) < MaxCalls
    /\ \E c \in CriteriaNames, op \in CriteriaOps, v \in CriteriaValues :
         LET ret == SearchQueryV0_criteria(q, c, op, v)
         IN /\ q' = ret
            /\ calls' = Append(calls, Call("criteria", <<c, op, v>>, ret))
    /\ UNCHANGED <<out, client, res, gets>>

Ingredient0 ==
    /\ Len(calls) < MaxCalls
    /\ \E i \in IngredientNames, v \in IngredientValues :
         LET ret == SearchQueryV0_ingredient(q, i, v)
         IN /\ q' = ret
            /\ calls' = Append(calls, Call("ingredient", <<i, v>>, ret))
    /\ UNCHANGED <<out, client, res, gets>>

Nutrient0 ==
    /\ Len(calls) < MaxCalls
    /\ \E n \in NutrientNames, op \in NutrientOpsV0, v \in NutrientValues :
         LET ret == SearchQueryV0_nutrient(q, n, op, v)
         IN /\ q' = ret
            /\ calls' = Append(calls, Call("nutrient", <<n, op, v>>, ret))
    /\ UNCHANGED <<out, client, res, gets>>

Terms0 ==
    /\ Len(calls) < MaxCalls
    /\ \E t \in SearchTerms :
         LET ret == SearchQueryV0_terms(q, t)
         IN /\ q' = ret
            /\ calls' = Append(calls, Call("terms", <<t>>, ret))
    /\ UNCHANGED <<out, client, res, gets>>

SortBy0 ==
    /\ Len(calls) < MaxCalls
    /\ \E s \in SortBy :
         LET ret == SearchQuery_sort_by(q, s)
         IN /\ q' = ret
            /\ calls' = Append(calls, Call("sort_by", <<s>>, ret))
    /\ UNCHANGED <<out, client, res, gets>>

\* Variant of the serialization: it takes the accumulated pairs out of the
\* builder.
Params0_draining ==
    /\ out' = Some([params |-> SearchQueryV0_params(q), n |-> Len(calls)])
    /\ q' = [q EXCEPT !.params = <<>>]
    /\ UNCHANGED <<calls, client, res, gets>>

\* params() borrows the builder; n records how many calls had been made on
\* the builder when it was serialized.
Params0 ==
    /\ out' = Some([params |-> SearchQueryV0_params(q), n |-> Len(calls)])
    /\ UNCHANGED <<q, calls, client, res, gets>>

NextV0 ==
    \/ Criteria0
    \/ Ingredient0
    \/ Nutrient0
    \/ Terms0
    \/ SortBy0
    \/ Params0

SpecV0 == InitV0 /\ [][NextV0]_vars

(***************************************************************************)
(* Inputs of the V2 builder calls.                                         *)
(***************************************************************************)
CriteriaNamesV2 == {"brands"}
CriteriaValuesV2 == {"-cheese"}
LanguageCodes == {None, Some("fr")}
NutrientUnits == {"serving", "kg"}
NutrientOpsV2 == {"=", "<=", ""}
NutrientValuesV2 == {500}
WrapperOps == {"=", "<"}
WrapperValues == {100}

(***************************************************************************)
(* The V2 builder as a state machine.                                      *)
(***************************************************************************)
ClientV2 == OffClient_new("V2", Locale_default)

InitV2 ==
    /\ q = SearchQueryV2_new
    /\ calls = <<>>
    /\ out = None
    /\ client = ClientV2
    /\ res = None
    /\ gets = <<>>

Criteria2 ==
    /\ Len(calls) < MaxCalls
    /\ \E c \in CriteriaNamesV2, v \in CriteriaValuesV2, lc \in LanguageCodes :
         LET ret == SearchQueryV2_criteria(q, c, v, lc)
         IN /\ q' = ret
            /\ calls' = Append(calls, Call("criteria", <<c, v, lc>>, ret))
    /\ UNCHANGED <<out, client, res, gets>>

Nutrient2 ==
    /\ Len(calls) < MaxCalls
    /\ \E n \in NutrientNames, u \in NutrientUnits, op \in NutrientOpsV2,
          v \in NutrientValuesV2 :
         LET ret == SearchQueryV2_nutrient(q, n, u, op, v)
         IN /\ q' = ret
            /\ calls' = Append(calls, Call("nutrient", <<n, u, op, v>>, ret))
    /\ UNCHANGED <<out, client, res, gets>>

Nutrient100g2 ==
    /\ Len(calls) < MaxCalls
    /\ \E n \in NutrientNames, op \in WrapperOps, v \in WrapperValues :
         LET ret == SearchQueryV2_nutrient_100g(q, n, op, v)
         IN /\ q' = ret
            /\ calls' = Append(calls, Call("nutrient_100g", <<n, op, v>>, ret))
    /\ UNCHANGED <<out, client, res, gets>>

NutrientServing2 ==
    /\ Len(calls) < MaxCalls
    /\ \E n \in NutrientNames, op \in WrapperOps, v \in WrapperValues :
         LET ret == SearchQueryV2_nutrient_serving(q, n, op, v)
         IN /\ q' = ret
            /\ calls' = Append(calls, Call("nutrient_serving", <<n, op, v>>, ret))
    /\ UNCHANGED <<out, client, res, gets>>

SortBy2 ==
    /\ Len(calls) < MaxCalls
    /\ \E s \in SortBy :
         LET ret == SearchQuery_sort_by(q, s)
         IN /\ q' = ret
            /\ calls' = Append(calls, Call("sort_by", <<s>>, ret))
    /\ UNCHANGED <<out, client, res, gets>>

Params2 ==
    /\ out' = Some([params |-> SearchQueryV2_params(q), n |-> Len(calls)])
    /\ UNCHANGED <<q, calls, client, res, gets>>

NextV2 ==
    \/ Criteria2
    \/ Nutrient2
    \/ Nutrient100g2
    \/ NutrientServing2
    \/ SortBy2
    \/ Params2

SpecV2 == InitV2 /\ [][NextV2]_vars

(***************************************************************************)
(* Both builders: a client of either version hands out its builder, which  *)
(* then takes the calls of its own version.                                *)
(***************************************************************************)
InitBuilders == InitV0 \/ InitV2

NextBuilders ==
    \/ client.v = "V0" /\ NextV0
    \/ client.v = "V2" /\ NextV2

SpecBuilders == InitBuilders /\ [][NextBuilders]_vars

(***************************************************************************)
(* Two builders of one client.  Slot b of q, calls and out is the b-th     *)
(* builder, the calls made on it and its last serialization; a slot is     *)
(* None until query() has returned the builder that is then followed.  A   *)
(* history entry carries k, the place of the call among the calls on both  *)
(* builders.                                                               *)
(***************************************************************************)
Slots == {1, 2}

PairSorts == {"EcoScore"}

InitPair ==
    /\ client \in {ClientDefault, ClientV2}
    /\ q = <<None, None>>
    /\ calls = << <<>>, <<>> >>
    /\ out = <<None, None>>
    /\ res = None
    /\ gets = <<>>

\* The place of the next call among the calls on both builders.
NextPlace == Len(calls[1]) + Len(calls[2]) + 1

PairCalled(b, op, args, ret) ==
    /\ q' = [q EXCEPT ![b] = Some(ret)]
    /\ calls' = [calls EXCEPT ![b] = Append(@, [op |-> op, args |-> args, k |-> NextPlace])]
    /\ UNCHANGED <<out, client, res, gets>>

\* Variant of query(): the builder handed out goes on from the counters of
\* the client's other builder.
PairQuery_shared_state(b) ==
    /\ ~q[b].some
    /\ q' = [q EXCEPT ![b] =
               Some(IF client.v = "V0" /\ q[3 - b].some
                    THEN [OffClientV0_query(client) EXCEPT !.state = q[3 - b].val.state]
                    ELSE IF client.v = "V0" THEN OffClientV0_query(client)
                    ELSE OffClientV2_query(client))]
    /\ calls' = [calls EXCEPT ![b] = <<>>]
    /\ out' = [out EXCEPT ![b] = None]
    /\ UNCHANGED <<client, res, gets>>

PairQuery(b) ==
    /\ ~q[b].some
    /\ q' = [q EXCEPT ![b] =
               Some(IF client.v = "V0" THEN OffClientV0_query(client)
                    ELSE OffClientV2_query(client))]
    /\ calls' = [calls EXCEPT ![b] = <<>>]
    /\ out' = [out EXCEPT ![b] = None]
    /\ UNCHANGED <<client, res, gets>>

PairCriteria(b) ==
    /\ q[b].some
    /\ Len(calls[b]) < MaxCallsEach
    /\ IF client.v = "V0"
       THEN PairCalled(b, "criteria", <<"brands", "contains", "cheese">>,
                       SearchQueryV0_criteria(q[b].val, "brands", "contains", "cheese"))
       ELSE PairCalled(b, "criteria", <<"brands", "-cheese", None>>,
                       SearchQueryV2_criteria(q[b].val, "brands", "-cheese", None))

PairNutrient(b) ==
    /\ q[b].some
    /\ Len(calls[b]) < MaxCallsEach
    /\ IF client.v = "V0"
       THEN PairCalled(b, "nutrient", <<"fiber", "lt", 500>>,
                       SearchQueryV0_nutrient(q[b].val, "fiber", "lt", 500))
       ELSE PairCalled(b, "nutrient", <<"fiber", "100g", "<", 100>>,
                       SearchQueryV2_nutrient(q[b].val, "fiber", "100g", "<", 100))

PairSortBy(b) ==
    /\ q[b].some
    /\ Len(calls[b]) < MaxCallsEach
    /\ \E s \in PairSorts :
         PairCalled(b, "sort_by", <<s>>, SearchQuery_sort_by(q[b].val, s))

PairParams(b) ==
    /\ q[b].some
    /\ out' = [out EXCEPT ![b] =
                 Some([params |-> IF client.v = "V0" THEN SearchQueryV0_params(q[b].val)
                                  ELSE SearchQueryV2_params(q[b].val),
                       n |-> Len(calls[b])])]
    /\ UNCHANGED <<q, calls, client, res, gets>>

NextPair ==
    \E b \in Slots :
       \/ PairQuery(b)
       \/ PairCriteria(b)
       \/ PairNutrient(b)
       \/ PairSortBy(b)
       \/ PairParams(b)

SpecPair == InitPair /\ [][NextPair]_vars

(***************************************************************************)
(* Inputs of the client: the versions, the default locales a client is     *)
(* built with and the locales passed to a call.                            *)
(***************************************************************************)
Versions == {"V0", "V2"}

DefaultLocales ==
    {Locale_default, Locale_new("fr", Some("fr"))}

\* The locales passed to a call: locales of the data model, a country with
\* a space, which no host can hold, a country in capitals, and a country
\* with slashes and a percent-encoded "..", which ends up in the path.
CallLocales ==
    {Locale_default, Locale_new("gr", None), Locale_new("be", Some("fr")),
     Locale_new("g r", None), Locale_new("GR", None),
     Locale_new("a/%2e%2e/b", None)}

OptionalLocales == {None} \cup {Some(l) : l \in CallLocales}

(***************************************************************************)
(* The client as a state machine: a client is built once, then its URL     *)
(* resolvers and endpoints are called; res keeps the last call and what    *)
(* it returned, calls has one entry for each endpoint or search call made. *)
(***************************************************************************)
InitClient ==
    /\ client \in {OffClient_new(v, l) : v \in Versions, l \in DefaultLocales}
    /\ q = (IF client.v = "V0" THEN SearchQueryV0_new ELSE SearchQueryV2_new)
    /\ calls = <<>>
    /\ out = None
    /\ res = None
    /\ gets = <<>>

Resolved(op, locale, result) == Some([op |-> op, locale |-> locale, result |-> result])

BaseUrl ==
    /\ \E locale \in OptionalLocales :
         res' = Resolved("base_url", locale, Urls_base_url(client, locale))
    /\ gets' = <<>>
    /\ UNCHANGED <<q, calls, out, client>>

BaseUrlWorld ==
    /\ res' = Resolved("base_url_world", None, Urls_base_url_world(client))
    /\ gets' = <<>>
    /\ UNCHANGED <<q, calls, out, client>>

CgiUrl ==
    /\ \E locale \in OptionalLocales :
         res' = Resolved("cgi_url", locale, Urls_cgi_url(client, locale))
    /\ gets' = <<>>
    /\ UNCHANGED <<q, calls, out, client>>

ApiUrl ==
    /\ \E locale \in OptionalLocales :
         res' = Resolved("api_url", locale, ApiUrl_api_url(client, locale))
    /\ gets' = <<>>
    /\ UNCHANGED <<q, calls, out, client>>

SearchUrl ==
    /\ \E locale \in OptionalLocales :
         res' = Resolved("search_url", locale, SearchUrl_search_url(client, locale))
    /\ gets' = <<>>
    /\ UNCHANGED <<q, calls, out, client>>

Version ==
    /\ res' = Resolved("version", None, OffClient_version(client))
    /\ gets' = <<>>
    /\ UNCHANGED <<q, calls, out, client>>

(***************************************************************************)
(* Inputs of the endpoint and search calls.                                *)
(***************************************************************************)
TaxonomyNames == {"nova_groups", "not_found"}
FacetNames == {"brands", "//["}
ProductsByWhat == {"additive"}
ProductsByIds == {"e322-lecithins"}
Barcodes == {"069000019832"}
BarcodeLists == {"069000019832,3017620422003"}

\* The four query options without a locale: none set, each one alone,
\* page, fields and nocache, and all four; a locale whose country has a
\* space; and a locale of the data model with all four options.
OutputValues ==
    {Output_new,
     [Output_new EXCEPT !.page = Some(22)],
     [Output_new EXCEPT !.page_size = Some(20)],
     [Output_new EXCEPT !.fields = Some("url")],
     [Output_new EXCEPT !.nocache = Some(TRUE)],
     [Output_new EXCEPT !.page = Some(22), !.fields = Some("url"),
                        !.nocache = Some(TRUE)],
     [Output_new EXCEPT !.page = Some(22), !.page_size = Some(20),
                        !.fields = Some("url"), !.nocache = Some(TRUE)]}
    \cup {[Output_new EXCEPT !.locale = Some(Locale_new("g r", None))],
          [locale |-> Some(Locale_new("fr", None)), page |-> Some(22),
           page_size |-> Some(20), fields |-> Some("url"), nocache |-> Some(FALSE)]}

Outputs == {None} \cup {Some(o) : o \in OutputValues}

\* What the transport answers to a request: a status, or a failure.
SendResults == {Ok(200), Ok(404), Err("TransportError")}

\* Queries built with the V0 builder, resp. the V2 builder.
QueriesV0 ==
    {SearchQueryV0_new,
     SearchQuery_sort_by(
        SearchQueryV0_nutrient(
           SearchQueryV0_criteria(SearchQueryV0_new, "brands", "contains", "cheese"),
           "fiber", "lt", 500),
        "EcoScore")}

QueriesV2 ==
    {SearchQueryV2_new,
     SearchQuery_sort_by(
        SearchQueryV2_nutrient_100g(
           SearchQueryV2_criteria(SearchQueryV2_new, "brands", "-cheese", Some("fr")),
           "fiber", "<", 100),
        "Popularity")}

(***************************************************************************)
(* The endpoint and search calls of the client.  A call is one step: it    *)
(* blocks until the transport has answered or the URL could not be built.  *)
(***************************************************************************)
Called(op, args, output, send, ret) ==
    /\ Len(calls) < MaxEndpointCalls
    /\ res' = Some([op |-> op, args |-> args, output |-> output, send |-> send,
                    result |-> ret.result])
    /\ gets' = ret.gets
    /\ calls' = Append(calls, [op |-> "endpoint"])

Taxonomy ==
    /\ \E taxonomy \in TaxonomyNames, send \in SendResults :
         Called("taxonomy", <<taxonomy>>, None, send, OffClient_taxonomy(client, taxonomy, send))
    /\ UNCHANGED <<q, out, client>>

\* Variant of the facet call: the client keeps the locale of the call as
\* its default locale.
Facet_keeps_locale ==
    /\ \E facet \in FacetNames, output \in Outputs, send \in SendResults :
         /\ Called("facet", <<facet>>, output, send,
                   OffClient_facet(client, facet, output, send))
         /\ client' = IF OutputLocale(output).some
                      THEN [client EXCEPT !.locale = OutputLocale(output).val]
                      ELSE client
    /\ UNCHANGED <<q, out>>

Facet ==
    /\ \E facet \in FacetNames, output \in Outputs, send \in SendResults :
         Called("facet", <<facet>>, output, send, OffClient_facet(client, facet, output, send))
    /\ UNCHANGED <<q, out, client>>

Categories ==
    /\ \E output \in Outputs, send \in SendResults :
         Called("categories", <<>>, output, send, OffClient_categories(client, output, send))
    /\ UNCHANGED <<q, out, client>>

Nutrients ==
    /\ \E output \in Outputs, send \in SendResults :
         Called("nutrients", <<>>, output, send, OffClient_nutrients(client, output, send))
    /\ UNCHANGED <<q, out, client>>

ProductsBy ==
    /\ \E what \in ProductsByWhat, id \in ProductsByIds, output \in Outputs,
          send \in SendResults :
         Called("products_by", <<what, id>>, output, send,
                OffClient_products_by(client, what, id, output, send))
    /\ UNCHANGED <<q, out, client>>

Product ==
    /\ \E barcode \in Barcodes, output \in Outputs, send \in SendResults :
         Called("product", <<barcode>>, output, send,
                OffClient_product(client, barcode, output, send))
    /\ UNCHANGED <<q, out, client>>

SearchV0 ==
    /\ client.v = "V0"
    /\ \E query \in QueriesV0, output \in Outputs, send \in SendResults :
         Called("search", <<query>>, output, send, OffClientV0_search(client, query, output, send))
    /\ UNCHANGED <<q, out, client>>

SearchV2 ==
    /\ client.v = "V2"
    /\ \E query \in QueriesV2, output \in Outputs, send \in SendResults :
         Called("search", <<query>>, output, send, OffClientV2_search(client, query, output, send))
    /\ UNCHANGED <<q, out, client>>

Products ==
    /\ client.v = "V2"
    /\ \E barcodes \in BarcodeLists, output \in Outputs, send \in SendResults :
         Called("products", <<barcodes>>, output, send,
                OffClientV2_products(client, barcodes, output, send))
    /\ UNCHANGED <<q, out, client>>

NextClient ==
    \/ Version
    \/ BaseUrl
    \/ BaseUrlWorld
    \/ CgiUrl
    \/ ApiUrl
    \/ SearchUrl
    \/ Taxonomy
    \/ Facet
    \/ Categories
    \/ Nutrients
    \/ ProductsBy
    \/ Product
    \/ SearchV0
    \/ SearchV2
    \/ Products

SpecClient == InitClient /\ [][NextClient]_vars

(***************************************************************************)
(* The whitelist filter on its own: Output::params applied to every        *)
(* combination of options, with the whitelists the endpoints pass and with *)
(* whitelists in other selections and orders.                              *)
(***************************************************************************)
AllOutputValues ==
    {[locale |-> l, page |-> p, page_size |-> ps, fields |-> f, nocache |-> nc] :
        l \in {None, Some(Locale_new("fr", None))},
        p \in {None, Some(22)}, ps \in {None, Some(20)},
        f \in {None, Some("url")}, nc \in {None, Some(TRUE), Some(FALSE)}}

\* The whitelists of facet, of products_by and search, of product and
\* products.
EndpointLists ==
    {<<"page", "page_size", "fields", "nocache">>,
     <<"page", "page_size", "fields">>,
     <<"fields">>}

\* Whitelists no endpoint passes: the filter takes any list of names.
OtherLists ==
    {<<>>,
     <<"page", "fields">>,
     <<"fields", "page">>,
     <<"nocache">>,
     <<"nocache", "fields", "page_size", "page">>,
     <<"locale", "page_size">>}

InitOutput ==
    /\ client = ClientDefault
    /\ q = SearchQueryV0_new
    /\ calls = <<>>
    /\ out = None
    /\ res = None
    /\ gets = <<>>

FilterOutput ==
    /\ \E o \in AllOutputValues, names \in EndpointLists \cup OtherLists :
         res' = Some([op |-> "output_params", args |-> <<names>>, output |-> Some(o),
                      result |-> Output_params(o, names)])
    /\ gets' = <<>>
    /\ UNCHANGED <<q, calls, out, client>>

NextOutput == FilterOutput

SpecOutput == InitOutput /\ [][NextOutput]_vars

(***************************************************************************)
(* Vocabulary of the properties.                                           *)
(***************************************************************************)
\* The decimal text of the numbers the properties mention, written out.
DecimalText(n) ==
    CASE n = 0 -> "0" [] n = 1 -> "1" [] n = 2 -> "2" [] n = 3 -> "3"
      [] n = 4 -> "4" [] n = 5 -> "5" [] n = 6 -> "6" [] n = 7 -> "7"
      [] n = 8 -> "8" [] n = 9 -> "9" [] n = 10 -> "10" [] n = 12 -> "12"
      [] n = 20 -> "20" [] n = 22 -> "22"
      [] n = 100 -> "100" [] n = 500 -> "500"

\* How many of the first j calls were calls of method op.
Count(op, j) == Cardinality({k \in 1..j : calls[k].op = op})

\* The pairs of the accumulated list that the j-th call appended.
Width(j) ==
    (IF j < Len(calls) THEN calls[j + 1].at ELSE Len(q.params) + 1) - calls[j].at

Emitted(j) == SubSeq(q.params, calls[j].at, calls[j].at + Width(j) - 1)

\* The length of the accumulated list after the first n calls.
ParamsLenAfter(n) == IF n < Len(calls) THEN calls[n + 1].at - 1 ELSE Len(q.params)

\* The sort_by calls among the first n calls.
SortCalls(n) == {j \in 1..n : calls[j].op = "sort_by"}

Max(S) == CHOOSE x \in S : \A y \in S : y <= x

(***************************************************************************)
(* Properties of the V0 builder (SpecV0).                                  *)
(***************************************************************************)

\* C1: the criteria counter equals the number of criteria calls made and the
\* nutrient counter the number of nutrient calls made (so both start at 0,
\* grow by one per call of their own method and by nothing else), and the
\* pairs of the N-th criteria call, resp. the N-th nutrient call, end in the
\* decimal text of N.
C1_IndependentCounters ==
    /\ q.state.criteria_index = Count("criteria", Len(calls))
    /\ q.state.nutrient_index = Count("nutrient", Len(calls))
    /\ \A j \in 1..Len(calls) :
         /\ calls[j].state.criteria_index = Count("criteria", j)
         /\ calls[j].state.nutrient_index = Count("nutrient", j)
         /\ calls[j].op = "criteria" =>
              LET N == DecimalText(Count("criteria", j))
                  e == Emitted(j)
              IN /\ Len(e) = 3
                 /\ <<e[1][1], e[2][1], e[3][1]>>
                      = <<"tagtype_" \o N, "tag_contains_" \o N, "tag_" \o N>>
         /\ calls[j].op = "nutrient" =>
              LET N == DecimalText(Count("nutrient", j))
                  e == Emitted(j)
              IN /\ Len(e) = 3
                 /\ <<e[1][1], e[2][1], e[3][1]>>
                      = <<"nutriment_" \o N, "nutriment_compare_" \o N,
                          "nutriment_value_" \o N>>

\* Two criteria calls with a nutrient call between them: the second criteria
\* call has suffix 2 while the nutrient call has suffix 1.
C1_Witness ==
    /\ Len(calls) = 3
    /\ <<calls[1].op, calls[2].op, calls[3].op>> = <<"criteria", "nutrient", "criteria">>
    /\ q.state = [criteria_index |-> 2, nutrient_index |-> 1]
    /\ q.params[7][1] = "tagtype_2"
    /\ q.params[4][1] = "nutriment_1"

\* C2: every criteria(name, op, value) call appended exactly the three pairs
\* (tagtype_i, name), (tag_contains_i, op), (tag_i, value), adjacent and in
\* this order, i being the criteria counter after the call; op is whatever
\* string was passed.
C2_CriteriaTriplet ==
    \A j \in 1..Len(calls) :
       calls[j].op = "criteria" =>
          LET i == DecimalText(calls[j].state.criteria_index)
              a == calls[j].args
          IN Emitted(j) = << <<"tagtype_" \o i, Value_String(a[1])>>,
                             <<"tag_contains_" \o i, Value_String(a[2])>>,
                             <<"tag_" \o i, Value_String(a[3])>> >>

\* A second criteria call whose operator is not one of the documented ones.
C2_Witness ==
    \E j \in 1..Len(calls) :
       /\ calls[j].op = "criteria"
       /\ calls[j].args[2] = "xx"
       /\ calls[j].state.criteria_index = 2
       /\ q.params[calls[j].at + 1] = <<"tag_contains_2", Value_String("xx")>>

\* C3: every nutrient(name, op, value) call appended exactly three adjacent
\* pairs named nutriment_i, nutriment_compare_i, nutriment_value_i, i being
\* the nutrient counter after the call, and a serialization made after the
\* call shows them at the same place as (nutriment_i, name),
\* (nutriment_compare_i, op), (nutriment_value_i, decimal text of value).
C3_NutrientTriplet ==
    \A j \in 1..Len(calls) :
       calls[j].op = "nutrient" =>
          LET i == DecimalText(calls[j].state.nutrient_index)
              a == calls[j].args
              e == Emitted(j)
          IN /\ Len(e) = 3
             /\ <<e[1][1], e[2][1], e[3][1]>>
                  = <<"nutriment_" \o i, "nutriment_compare_" \o i,
                      "nutriment_value_" \o i>>
             /\ (out.some /\ j <= out.val.n) =>
                  SubSeq(out.val.params, calls[j].at, calls[j].at + 2)
                    = << <<"nutriment_" \o i, a[1]>>,
                         <<"nutriment_compare_" \o i, a[2]>>,
                         <<"nutriment_value_" \o i, DecimalText(a[3])>> >>

\* A serialized builder whose second nutrient call had the value 500.
C3_Witness ==
    /\ out.some
    /\ \E j \in 1..out.val.n :
          /\ calls[j].op = "nutrient"
          /\ calls[j].args[3] = 500
          /\ calls[j].state.nutrient_index = 2
          /\ out.val.params[calls[j].at + 2] = <<"nutriment_value_2", "500">>

\* C4: every ingredient(name, value) call appended exactly one pair, without
\* a numeric suffix: ("additives", value_additives) when name is "additives",
\* (name, value) otherwise.
C4_IngredientPair ==
    \A j \in 1..Len(calls) :
       calls[j].op = "ingredient" =>
          LET a == calls[j].args
          IN Emitted(j) =
               IF a[1] = "additives"
               THEN << <<"additives", Value_String(a[2] \o "_additives")>> >>
               ELSE << <<a[1], Value_String(a[2])>> >>

\* Both cases of the spec's example happened on one builder.
C4_Witness ==
    /\ \E j \in 1..Len(calls) :
          /\ calls[j].op = "ingredient"
          /\ calls[j].args = <<"additives", "without">>
          /\ q.params[calls[j].at] = <<"additives", Value_String("without_additives")>>
    /\ \E j \in 1..Len(calls) :
          /\ calls[j].op = "ingredient"
          /\ calls[j].args = <<"ingredients_from_palm_oil", "without">>
          /\ q.params[calls[j].at]
               = <<"ingredients_from_palm_oil", Value_String("without")>>

\* C5: a serialized V0 list is the accumulated pairs in call order, each with
\* its value as text, then the sort_by pair of the last sort_by call if there
\* was one, then ("action","process"), then ("json","true").
C5_SerializationOrderV0 ==
    out.some =>
       LET p == out.val.params
           m == ParamsLenAfter(out.val.n)
           sorts == SortCalls(out.val.n)
           s == IF sorts = {} THEN 0 ELSE 1
       IN /\ Len(p) = m + s + 2
          /\ \A i \in 1..m :
               /\ p[i][1] = q.params[i][1]
               /\ q.params[i][2].kind = "String" => p[i][2] = q.params[i][2].s
               /\ q.params[i][2].kind = "Number" =>
                    p[i][2] = DecimalText(q.params[i][2].n)
               /\ q.params[i][2].kind \in {"String", "Number"}
          /\ s = 1 =>
               p[m + 1] = <<"sort_by", SortBy_fmt(calls[Max(sorts)].args[1])>>
          /\ p[Len(p) - 1] = <<"action", "process">>
          /\ p[Len(p)] = <<"json", "true">>

\* A serialization of a builder that had a sort field and accumulated pairs.
C5_Witness ==
    /\ out.some
    /\ out.val.n = 3
    /\ SortCalls(out.val.n) # {}
    /\ calls[3].op # "sort_by"
    /\ Len(out.val.params) >= 5
    /\ out.val.params[Len(out.val.params) - 2][1] = "sort_by"

(***************************************************************************)
(* Properties of the V2 builder (SpecV2).                                  *)
(***************************************************************************)

\* C6: every V2 nutrient(name, unit, op, value) call appended exactly one
\* pair: for op "=" the pair name_unit with the number, serialized as
\* (name_unit, decimal text of value); for any other op, the empty one
\* included, a pair named name_unit op decimal-value without a value,
\* serialized with the empty string as its value.
C6_NutrientPairV2 ==
    \A j \in 1..Len(calls) :
       calls[j].op = "nutrient" =>
          LET a == calls[j].args
              key == a[1] \o "_" \o a[2]
              e == Emitted(j)
          IN /\ Len(e) = 1
             /\ a[3] = "=" => e[1] = <<key, Value_Number(a[4])>>
             /\ a[3] # "=" => e[1] = <<key \o a[3] \o DecimalText(a[4]), Value_None>>
             /\ (out.some /\ j <= out.val.n) =>
                  out.val.params[calls[j].at] =
                    IF a[3] = "=" THEN <<key, DecimalText(a[4])>>
                    ELSE <<key \o a[3] \o DecimalText(a[4]), "">>

\* A serialized builder with an equality, an empty operator and a
\* two-character operator.
C6_Witness ==
    /\ out.some
    /\ out.val.n = 3
    /\ \A j \in 1..3 : calls[j].op = "nutrient"
    /\ <<calls[1].args[3], calls[2].args[3], calls[3].args[3]>> = <<"=", "", "<=">>
    /\ out.val.params[1] = <<"fiber_" \o calls[1].args[2], "500">>
    /\ out.val.params[2] = <<"fiber_" \o calls[2].args[2] \o "500", "">>
    /\ out.val.params[3] = <<"fiber_" \o calls[3].args[2] \o "<=500", "">>

\* C7: every V2 criteria(name, value, lc) call appended exactly one pair,
\* (name_tags, value) without a language code and (name_tags_lc, value) with
\* one, and the pair of every earlier call is still in the list where that
\* call put it.
C7_CriteriaPairV2 ==
    \A j \in 1..Len(calls) :
       calls[j].op = "criteria" =>
          LET a == calls[j].args
          IN Emitted(j) =
               IF a[3].some
               THEN << <<a[1] \o "_tags_" \o a[3].val, Value_String(a[2])>> >>
               ELSE << <<a[1] \o "_tags", Value_String(a[2])>> >>

\* Three criteria calls with the same name, with and without language code.
C7_Witness ==
    /\ Len(calls) = 3
    /\ \A j \in 1..3 : calls[j].op = "criteria" /\ calls[j].args[1] = "brands"
    /\ q.params = << <<"brands_tags_fr", Value_String("-cheese")>>,
                     <<"brands_tags", Value_String("-cheese")>>,
                     <<"brands_tags", Value_String("-cheese")>> >>

\* C8: a serialized V2 list has one pair per criteria or nutrient call made
\* before it, in call order, then the sort_by pair of the last sort_by call
\* if there was one, and nothing else: no action or json pair, and the empty
\* list for a builder without calls.
C8_SerializationOrderV2 ==
    out.some =>
       LET p == out.val.params
           n == out.val.n
           emitting == {j \in 1..n : calls[j].op # "sort_by"}
           sorts == SortCalls(n)
           s == IF sorts = {} THEN 0 ELSE 1
           m == Cardinality(emitting)
       IN /\ Len(p) = m + s
          /\ m = ParamsLenAfter(n)
          /\ \A j \in emitting : p[calls[j].at][1] = q.params[calls[j].at][1]
          /\ \A i \in 1..m :
               LET v == q.params[i][2]
               IN p[i][2] = CASE v.kind = "String" -> v.s
                              [] v.kind = "Number" -> DecimalText(v.n)
                              [] v.kind = "None" -> ""
          /\ s = 1 =>
               p[m + 1] = <<"sort_by", SortBy_fmt(calls[Max(sorts)].args[1])>>
          /\ \A i \in 1..Len(p) : p[i][1] \notin {"action", "json"}
          /\ n = 0 => p = <<>>

\* A serialization of a builder with a valueless pair, a valued pair and a
\* sort field: three pairs, the last one sort_by.
C8_Witness ==
    /\ out.some
    /\ out.val.n = 3
    /\ calls[1].op = "nutrient_100g" /\ calls[1].args[2] = "<"
    /\ calls[2].op = "sort_by"
    /\ calls[3].op = "criteria"
    /\ Len(out.val.params) = 3
    /\ out.val.params[1] = <<"fiber_100g<100", "">>
    /\ out.val.params[3][1] = "sort_by"

(***************************************************************************)
(* Properties of the URL resolvers (SpecClient).                           *)
(***************************************************************************)
\* The locale a call resolves with: the one passed, else the client's.
EffectiveLocale(locale) == IF locale.some THEN locale.val ELSE client.locale

\* A code of two lowercase letters.
LowercaseCode(s) == Len(s) = 2 /\ Chars(s) \subseteq Chars(AsciiLower)

\* A locale of the data model: its country is "world" or a code of two
\* lowercase letters, its language, when it has one, is such a code.
WellFormed(l) ==
    /\ l.country = "world" \/ LowercaseCode(l.country)
    /\ l.language.some => LowercaseCode(l.language.val)

HostUrl(l) == "https://" \o Locale_to_string(l) \o ".openfoodfacts.org/"

\* C9: search_url of a V0 client is
\* https://{locale}.openfoodfacts.org/cgi/search.pl and search_url of a V2
\* client is https://{locale}.openfoodfacts.org/api/v2/search, for every
\* locale of the data model, passed or defaulted; these are cgi_url(locale)
\* followed by "search.pl" and api_url(locale) followed by "search".
C9_SearchUrlByVersion ==
    (res.some /\ res.val.op = "search_url") =>
       LET l == EffectiveLocale(res.val.locale)
           host == "https://" \o Locale_to_string(l) \o ".openfoodfacts.org/"
           r == res.val.result
       IN /\ (WellFormed(l) /\ client.v = "V0") => r = Ok(host \o "cgi/search.pl")
          /\ (WellFormed(l) /\ client.v = "V2") => r = Ok(host \o "api/v2/search")
          /\ (r.ok /\ client.v = "V0") =>
               r.val = Urls_cgi_url(client, res.val.locale).val \o "search.pl"
          /\ (r.ok /\ client.v = "V2") =>
               r.val = ApiUrl_api_url(client, res.val.locale).val \o "search"

\* A V2 client resolved the search URL of the locale gr.
C9_Witness ==
    /\ client.v = "V2"
    /\ res.some
    /\ res.val.op = "search_url"
    /\ res.val.locale = Some(Locale_new("gr", None))
    /\ res.val.result = Ok("https://gr.openfoodfacts.org/api/v2/search")

\* C10: base_url of a locale L of the data model is
\* https://{rendering of L}.openfoodfacts.org/, and without a locale the
\* client's default locale is rendered in its place.
C10_BaseUrl ==
    (res.some /\ res.val.op = "base_url") =>
       LET r == res.val.result
           given == res.val.locale
       IN /\ (given.some /\ WellFormed(given.val)) =>
               r = Ok("https://" \o Locale_to_string(given.val) \o ".openfoodfacts.org/")
          /\ ~given.some =>
               r = Ok("https://" \o Locale_to_string(client.locale) \o ".openfoodfacts.org/")

\* A client whose default locale is fr-fr resolved the base URL of be-fr.
C10_Witness ==
    /\ client.locale = Locale_new("fr", Some("fr"))
    /\ res.some
    /\ res.val.op = "base_url"
    /\ res.val.locale = Some(Locale_new("be", Some("fr")))
    /\ res.val.result = Ok("https://be-fr.openfoodfacts.org/")

\* C11: base_url_world is https://world.openfoodfacts.org/ whatever default
\* locale the client was built with.
C11_BaseUrlWorld ==
    (res.some /\ res.val.op = "base_url_world") =>
       res.val.result = Ok("https://world.openfoodfacts.org/")

\* A client built with the default locale fr-fr resolved base_url_world.
C11_Witness ==
    /\ client.locale = Locale_new("fr", Some("fr"))
    /\ res.some
    /\ res.val.op = "base_url_world"
    /\ res.val.result = Ok("https://world.openfoodfacts.org/")

(***************************************************************************)
(* Properties of the endpoint and search calls (SpecClient).               *)
(***************************************************************************)
EndpointOps ==
    {"taxonomy", "facet", "categories", "nutrients", "products_by", "product",
     "search", "products"}

\* The last call was the endpoint or search call op.
LastCall(op) == res.some /\ res.val.op = op

\* The locale the last endpoint call resolves its host with.
CallLocale ==
    IF res.val.op = "taxonomy" THEN Locale_new("world", None)
    ELSE EffectiveLocale(OutputLocale(res.val.output))

VersionText == IF client.v = "V0" THEN "v0" ELSE "v2"

\* C12: api_url(locale) is base_url(locale) followed by api/v0/ for a V0
\* client and api/v2/ for a V2 client, for every locale of the data model,
\* and the product endpoint requests that URL followed by product/{barcode}.
C12_ApiUrl ==
    /\ LastCall("api_url") =>
         LET l == EffectiveLocale(res.val.locale)
             r == res.val.result
         IN /\ WellFormed(l) => r = Ok(HostUrl(l) \o "api/" \o VersionText \o "/")
            /\ WellFormed(l) =>
                 r.val = Urls_base_url(client, res.val.locale).val
                           \o "api/" \o VersionText \o "/"
    /\ (LastCall("product") /\ WellFormed(CallLocale)) =>
         /\ Len(gets) = 1
         /\ gets[1].url = HostUrl(CallLocale) \o "api/" \o VersionText
                            \o "/product/" \o res.val.args[1]
         /\ gets[1].url = ApiUrl_api_url(client, OutputLocale(res.val.output)).val
                            \o "product/" \o res.val.args[1]

\* A V2 client asked for a product with the locale fr.
C12_Witness ==
    /\ client.v = "V2"
    /\ LastCall("product")
    /\ res.val.output.some
    /\ res.val.output.val.locale = Some(Locale_new("fr", None))
    /\ gets = << [url |-> "https://fr.openfoodfacts.org/api/v2/product/069000019832",
                  params |-> Some(<< <<"fields", "url">> >>)] >>

\* C13: the taxonomy endpoint hands the transport exactly one request, for
\* https://world.openfoodfacts.org/data/taxonomies/{name}.json and without
\* query parameters, whatever the client's default locale.
C13_TaxonomyWorld ==
    LastCall("taxonomy") =>
       gets = << [url |-> "https://world.openfoodfacts.org/data/taxonomies/"
                            \o res.val.args[1] \o ".json",
                  params |-> None] >>

\* A client built with the default locale fr-fr asked for a taxonomy.
C13_Witness ==
    /\ client.locale = Locale_new("fr", Some("fr"))
    /\ LastCall("taxonomy")
    /\ res.val.args = <<"nova_groups">>
    /\ Len(gets) = 1
    /\ gets[1].url = "https://world.openfoodfacts.org/data/taxonomies/nova_groups.json"

\* The pairs the options o give an endpoint that allows the option names in
\* W: one pair per option that is set and allowed, in the order page,
\* page_size, fields, nocache.
ExpectedPairs(o, W) ==
    (IF o.page.some /\ "page" \in W
     THEN << <<"page", DecimalText(o.page.val)>> >> ELSE <<>>)
    \o (IF o.page_size.some /\ "page_size" \in W
        THEN << <<"page_size", DecimalText(o.page_size.val)>> >> ELSE <<>>)
    \o (IF o.fields.some /\ "fields" \in W
        THEN << <<"fields", o.fields.val>> >> ELSE <<>>)
    \o (IF o.nocache.some /\ "nocache" \in W
        THEN << <<"nocache", IF o.nocache.val THEN "true" ELSE "false">> >> ELSE <<>>)

\* C14 as stated: whenever categories makes a request, its URL is
\* https://world.openfoodfacts.org/categories.json.
C14_CategoriesForcedWorld ==
    (LastCall("categories") /\ gets # <<>>) =>
       gets[1].url = "https://world.openfoodfacts.org/categories.json"

\* C14, amended: categories requests
\* https://{locale}.openfoodfacts.org/categories.json without query
\* parameters, the locale being the one of the output options, else the
\* client's default locale.
C14_CategoriesLocale ==
    (LastCall("categories") /\ WellFormed(CallLocale)) =>
       gets = << [url |-> HostUrl(CallLocale) \o "categories.json",
                  params |-> None] >>

\* A client with the default locale world asked for the categories with the
\* locale fr and the request went to the fr host.
C14_Witness ==
    /\ client.locale = Locale_new("world", None)
    /\ LastCall("categories")
    /\ res.val.output.some
    /\ res.val.output.val.locale = Some(Locale_new("fr", None))
    /\ Len(gets) = 1
    /\ gets[1].url = "https://fr.openfoodfacts.org/categories.json"

\* C15: the list a search call hands to GET is the serialized query followed
\* by the page, page_size and fields pairs of the options that are set, in
\* this order; no pair is named nocache or locale; the locale only chooses
\* the host of the search URL.
C15_SearchOutputPairs ==
    (LastCall("search") /\ WellFormed(CallLocale)) =>
       LET query == res.val.args[1]
           base == IF client.v = "V0" THEN SearchQueryV0_params(query)
                   ELSE SearchQueryV2_params(query)
           list == gets[1].params.val
       IN /\ Len(gets) = 1
          /\ gets[1].params.some
          /\ SubSeq(list, 1, Len(base)) = base
          /\ SubSeq(list, Len(base) + 1, Len(list))
               = IF res.val.output.some
                 THEN ExpectedPairs(res.val.output.val, {"page", "page_size", "fields"})
                 ELSE <<>>
          /\ \A i \in 1..Len(list) : list[i][1] \notin {"nocache", "locale"}
          /\ gets[1].url = HostUrl(CallLocale)
                             \o (IF client.v = "V0" THEN "cgi/search.pl"
                                 ELSE "api/v2/search")

\* A V0 search with a locale and all four options set: the list ends in
\* page, page_size, fields and the request goes to the fr host.
C15_Witness ==
    /\ client.v = "V0"
    /\ LastCall("search")
    /\ res.val.output.some
    /\ res.val.output.val.nocache = Some(FALSE)
    /\ res.val.args[1].params # <<>>
    /\ Len(gets) = 1
    /\ gets[1].url = "https://fr.openfoodfacts.org/cgi/search.pl"
    /\ SubSeq(gets[1].params.val, Len(gets[1].params.val) - 4, Len(gets[1].params.val))
         = << <<"action", "process">>, <<"json", "true">>, <<"page", "22">>,
              <<"page_size", "20">>, <<"fields", "url">> >>

(***************************************************************************)
(* Property of the whitelist filter (SpecOutput).                          *)
(***************************************************************************)

\* C16: the filter returns one pair for each option that is both set and
\* named in the whitelist, in the order page, page_size, fields, nocache
\* whatever the order of the whitelist; an option that is set but not
\* allowed gives no pair, and no pair is named locale.
C16_WhitelistFilter ==
    LastCall("output_params") =>
       LET names == res.val.args[1]
           W == {names[i] : i \in 1..Len(names)}
           r == res.val.result
       IN /\ r = ExpectedPairs(res.val.output.val, W)
          /\ \A i \in 1..Len(r) : r[i][1] # "locale"

\* The spec's example with the whitelist in the other order: page, fields
\* and nocache set, fields and page allowed.
C16_Witness ==
    /\ LastCall("output_params")
    /\ res.val.args[1] = <<"fields", "page">>
    /\ res.val.output.val.page = Some(22)
    /\ res.val.output.val.fields = Some("url")
    /\ res.val.output.val.nocache = Some(TRUE)
    /\ res.val.output.val.locale.some
    /\ res.val.result = << <<"page", "22">>, <<"fields", "url">> >>

(***************************************************************************)
(* Properties of the endpoint and search calls (SpecClient), continued.    *)
(***************************************************************************)
\* A name of lowercase letters, digits, "-" and "_": a path segment that
\* stands for itself in a URL.
PlainName(s) == Chars(s) \subseteq Chars(AsciiLower) \cup Digit \cup {"-", "_"}

\* The arguments of the last call that become path segments of its URL.
PathArgs ==
    IF res.val.op \in {"taxonomy", "facet", "products_by", "product"}
    THEN res.val.args ELSE <<>>

\* The last call was made with a locale of the data model and with plain
\* names.
PlainCall ==
    /\ WellFormed(CallLocale)
    /\ \A i \in 1..Len(PathArgs) : PlainName(PathArgs[i])

\* The option names an endpoint lets through.
Whitelist(op) ==
    CASE op = "facet" -> {"page", "page_size", "fields", "nocache"}
      [] op = "products_by" -> {"page", "page_size", "fields"}
      [] op = "product" -> {"fields"}
      [] op \in {"categories", "nutrients", "taxonomy"} -> {}

\* C17: an endpoint called with a locale of the data model and plain names
\* makes its request with the pairs of the options that are set and in its
\* whitelist, and with nothing else: facet page, page_size, fields,
\* nocache; products_by page, page_size, fields; product fields;
\* categories, nutrients and taxonomy no parameters at all.
C17_EndpointWhitelists ==
    (res.some
       /\ res.val.op \in {"facet", "products_by", "product", "categories",
                          "nutrients", "taxonomy"}
       /\ PlainCall) =>
       /\ Len(gets) = 1
       /\ gets[1].params =
            IF res.val.op \in {"categories", "nutrients", "taxonomy"} THEN None
            ELSE IF res.val.output.some
                 THEN Some(ExpectedPairs(res.val.output.val, Whitelist(res.val.op)))
                 ELSE None

\* A product call with all four options set sent the fields pair alone.
C17_Witness ==
    /\ LastCall("product")
    /\ res.val.output.some
    /\ res.val.output.val.locale = None
    /\ res.val.output.val.page = Some(22)
    /\ res.val.output.val.nocache = Some(TRUE)
    /\ Len(gets) = 1
    /\ gets[1].params = Some(<< <<"fields", "url">> >>)

\* The pieces the last call joins, one after the other, to the host of its
\* locale.
CallPath ==
    CASE res.val.op = "taxonomy" -> <<"data/taxonomies/" \o res.val.args[1] \o ".json">>
      [] res.val.op = "facet" -> <<res.val.args[1] \o ".json">>
      [] res.val.op = "categories" -> <<"categories.json">>
      [] res.val.op = "nutrients" -> <<"cgi/", "nutrients.pl">>
      [] res.val.op = "products_by" ->
           <<res.val.args[1] \o "/" \o res.val.args[2] \o ".json">>
      [] res.val.op = "product" ->
           <<"api/" \o VersionText \o "/", "product/" \o res.val.args[1]>>
      [] res.val.op = "search" ->
           IF client.v = "V0" THEN <<"cgi/", "search.pl">> ELSE <<"api/v2/", "search">>
      [] res.val.op = "products" -> <<"api/v2/", "search">>

RECURSIVE JoinAll(_, _)
JoinAll(url, pieces) ==
    IF ~url.ok \/ pieces = <<>> THEN url
    ELSE JoinAll(Url_join(url.val, Head(pieces)), Tail(pieces))

\* The URL composition of the last call: its URL, or the error of the first
\* step that fails.
CallUrl == JoinAll(Url_parse(HostUrl(CallLocale)), CallPath)

\* The text has a space.
HasSpace(s) == " " \in Chars(s)

\* C18: a call whose URL composition fails returns the error of the
\* composition and hands nothing to the transport, whatever the transport
\* would have answered; a call that returned an error the transport did not
\* give returned the error of the composition and made no request; and the
\* composition does fail for a locale with a space.
C18_UrlErrorNoGet ==
    (res.some /\ res.val.op \in EndpointOps) =>
       /\ ~CallUrl.ok =>
            /\ res.val.result = CallUrl
            /\ gets = <<>>
       /\ (~res.val.result.ok /\ res.val.result # res.val.send) =>
            /\ res.val.result = CallUrl
            /\ gets = <<>>
       /\ HasSpace(Locale_to_string(CallLocale)) =>
            /\ ~res.val.result.ok
            /\ res.val.result # res.val.send
            /\ gets = <<>>

\* A nutrients call with a locale that is no host name, while the transport
\* would have answered 200.
C18_Witness ==
    /\ LastCall("nutrients")
    /\ res.val.output.some
    /\ res.val.output.val.locale = Some(Locale_new("g r", None))
    /\ res.val.send = Ok(200)
    /\ ~res.val.result.ok
    /\ res.val.result = Url_parse("https://g r.openfoodfacts.org/")
    /\ gets = <<>>

\* C19: when the URL could be built and the transport answered with a
\* status, 404 included, the call returns Ok with the response of that
\* status; a call returns an error only for a URL that cannot be built or
\* for a failure of the transport; and the URL can be built for a locale of
\* the data model and plain names.
C19_StatusIsNotAnError ==
    (res.some /\ res.val.op \in EndpointOps) =>
       /\ PlainCall => CallUrl.ok
       /\ (CallUrl.ok /\ res.val.send.ok) =>
            /\ res.val.result.ok
            /\ res.val.result.val.status = res.val.send.val
            /\ res.val.result.val.url = gets[1].url
       /\ ~res.val.result.ok =>
            \/ /\ ~CallUrl.ok
               /\ res.val.result = CallUrl
            \/ /\ ~res.val.send.ok
               /\ res.val.result = res.val.send

\* The taxonomy not_found was answered with 404 and the call returned Ok.
C19_Witness ==
    /\ LastCall("taxonomy")
    /\ res.val.args = <<"not_found">>
    /\ res.val.send = Ok(404)
    /\ res.val.result.ok
    /\ res.val.result.val.status = 404

\* C20: an endpoint or search call hands the transport at most one request:
\* exactly one when its URL could be built and none otherwise; when the
\* transport fails that request, the call returns the transport's error and
\* there is still one request only.
C20_AtMostOneGet ==
    (res.some /\ res.val.op \in EndpointOps) =>
       /\ Len(gets) <= 1
       /\ Len(gets) = 1 <=> CallUrl.ok
       /\ PlainCall => Len(gets) = 1
       /\ (Len(gets) = 1 /\ ~res.val.send.ok) => res.val.result = res.val.send

\* A products call that the transport failed: one request, the error back.
C20_Witness ==
    /\ LastCall("products")
    /\ res.val.send = Err("TransportError")
    /\ res.val.result = Err("TransportError")
    /\ Len(gets) = 1
    /\ gets[1].params.val[1] = <<"code", "069000019832,3017620422003">>

(***************************************************************************)
(* Properties of the client as a whole (SpecClient).                       *)
(***************************************************************************)
ResolverOps == {"version", "base_url", "base_url_world", "cgi_url", "api_url", "search_url"}

\* What a client built as c answers right after construction for a locale
\* of the data model: its version text, and for a resolver the URL of the
\* locale passed, else of c's default locale (of world for base_url_world).
AtConstruction(c, op, locale) ==
    LET l == IF op = "base_url_world" THEN Locale_new("world", None)
             ELSE IF locale.some THEN locale.val ELSE c.locale
        v == IF c.v = "V0" THEN "v0" ELSE "v2"
        path == CASE op \in {"base_url", "base_url_world"} -> ""
                  [] op = "cgi_url" -> "cgi/"
                  [] op = "api_url" -> "api/" \o v \o "/"
                  [] op = "search_url" ->
                       IF c.v = "V0" THEN "cgi/search.pl" ELSE "api/v2/search"
    IN IF op = "version" THEN v ELSE Ok(HostUrl(l) \o path)

\* What the client c answers to the resolver op.
Resolve(c, op, locale) ==
    CASE op = "version" -> OffClient_version(c)
      [] op = "base_url" -> Urls_base_url(c, locale)
      [] op = "base_url_world" -> Urls_base_url_world(c)
      [] op = "cgi_url" -> Urls_cgi_url(c, locale)
      [] op = "api_url" -> ApiUrl_api_url(c, locale)
      [] op = "search_url" -> SearchUrl_search_url(c, locale)

\* C21: no call changes the client (its version marker and default locale
\* stay what they were), and version() and every URL resolver called at any
\* point give what the client, as it was before the call, gives for the
\* same input: for a locale of the data model, the answer written out for
\* a client right after construction.
C21_ClientUnchanged ==
    [][/\ client' = client
       /\ (res'.some /\ res'.val.op \in ResolverOps) =>
            /\ res'.val.result = Resolve(client, res'.val.op, res'.val.locale)
            /\ (res'.val.op \in {"version", "base_url_world"}
                  \/ WellFormed(IF res'.val.locale.some THEN res'.val.locale.val
                                ELSE client.locale)) =>
                 res'.val.result = AtConstruction(client, res'.val.op, res'.val.locale)]_vars

\* A V2 client with the default locale fr-fr made an endpoint or search call
\* and then resolved its search URL without a locale: it still is a V2
\* client of fr-fr and resolves as one.
C21_Witness ==
    /\ Len(calls) = 1
    /\ LastCall("search_url")
    /\ res.val.locale = None
    /\ client = [v |-> "V2", locale |-> Locale_new("fr", Some("fr"))]
    /\ res.val.result = Ok("https://fr-fr.openfoodfacts.org/api/v2/search")

(***************************************************************************)
(* Properties of the V0 builder (SpecV0), continued.                       *)
(***************************************************************************)
\* The builder was serialized after exactly three calls: one criteria, one
\* ingredient and one nutrient call, in any order.
OneOfEach ==
    /\ out.some
    /\ out.val.n = 3
    /\ Count("criteria", 3) = 1
    /\ Count("ingredient", 3) = 1
    /\ Count("nutrient", 3) = 1

\* C22 as stated: a V0 query built with one criteria, one ingredient and one
\* nutrient call serializes to 8 pairs, the last two being
\* ("action","process") and ("json","true").
C22_EightPairs ==
    OneOfEach =>
       /\ Len(out.val.params) = 8
       /\ SubSeq(out.val.params, 7, 8)
            = << <<"action", "process">>, <<"json", "true">> >>

\* C22, amended: such a query serializes to 9 pairs (three of the criteria
\* call, one of the ingredient call, three of the nutrient call, two
\* constant ones), the last two being ("action","process") and
\* ("json","true").
C22_NinePairs ==
    OneOfEach =>
       /\ Len(out.val.params) = 9
       /\ SubSeq(out.val.params, 8, 9)
            = << <<"action", "process">>, <<"json", "true">> >>

\* criteria, ingredient, nutrient in this order, serialized.
C22_Witness ==
    /\ OneOfEach
    /\ out.val.params =
         << <<"tagtype_1", "brands">>, <<"tag_contains_1", "contains">>,
            <<"tag_1", "cheese">>, <<"additives", "without_additives">>,
            <<"nutriment_1", "fiber">>, <<"nutriment_compare_1", "lt">>,
            <<"nutriment_value_1", "500">>,
            <<"action", "process">>, <<"json", "true">> >>

(***************************************************************************)
(* Properties of both builders (SpecBuilders).                             *)
(***************************************************************************)
\* The wire value of each sort criterion, written out.
SortText(s) ==
    CASE s = "Popularity" -> "unique_scans_n"
      [] s = "ProductName" -> "product_name"
      [] s = "CreatedDate" -> "created_t"
      [] s = "LastModifiedDate" -> "last_modified_t"
      [] s = "EcoScore" -> "ecoscore_score"

\* Where a serialized list has its sort_by pair: before the two constant
\* pairs in V0, last in V2.
SortPosition(p) == IF client.v = "V0" THEN Len(p) - 2 ELSE Len(p)

\* C23: a serialization of a builder that had a sort field, V0 or V2, has
\* the pair named "sort_by" whose value is the table's text for the
\* criterion of the last sort_by call: unique_scans_n, product_name,
\* created_t, last_modified_t, ecoscore_score; and two different criteria
\* never have the same text.
C23_SortByTable ==
    /\ \A a, b \in SortBy : a # b => SortBy_fmt(a) # SortBy_fmt(b)
    /\ (out.some /\ SortCalls(out.val.n) # {}) =>
         LET p == out.val.params
             criterion == calls[Max(SortCalls(out.val.n))].args[1]
         IN p[SortPosition(p)] = <<"sort_by", SortText(criterion)>>

\* A V2 builder sorted by EcoScore after a nutrient call, serialized.
C23_Witness ==
    /\ client.v = "V2"
    /\ out.some
    /\ out.val.n = 2
    /\ calls[1].op = "nutrient_serving"
    /\ calls[2].op = "sort_by" /\ calls[2].args = <<"EcoScore">>
    /\ Len(out.val.params) = 2
    /\ out.val.params[2] = <<"sort_by", "ecoscore_score">>

(***************************************************************************)
(* Properties of the endpoint and search calls (SpecClient), continued.    *)
(***************************************************************************)

\* C24: the batch product fetch of a V2 client makes its request to
\* https://{locale}.openfoodfacts.org/api/v2/search, the locale being the
\* one of the output options, else the client's default; the first pair is
\* ("code", barcodes), followed by the fields pair when fields is set and by
\* nothing else: no page, page_size or nocache pair.
C24_BatchProducts ==
    (LastCall("products") /\ WellFormed(CallLocale)) =>
       /\ client.v = "V2"
       /\ Len(gets) = 1
       /\ gets[1].url = HostUrl(CallLocale) \o "api/v2/search"
       /\ gets[1].params.some
       /\ LET list == gets[1].params.val
              o == res.val.output
          IN /\ list[1] = <<"code", res.val.args[1]>>
             /\ Tail(list) = IF o.some /\ o.val.fields.some
                             THEN << <<"fields", o.val.fields.val>> >>
                             ELSE <<>>
             /\ \A i \in 1..Len(list) :
                  list[i][1] \notin {"page", "page_size", "nocache"}

\* A batch fetch with the locale fr and all four options set.
C24_Witness ==
    /\ LastCall("products")
    /\ client.locale = Locale_new("fr", Some("fr"))
    /\ res.val.output.some
    /\ res.val.output.val.locale = Some(Locale_new("fr", None))
    /\ res.val.output.val.page = Some(22)
    /\ res.val.output.val.nocache = Some(FALSE)
    /\ gets = << [url |-> "https://fr.openfoodfacts.org/api/v2/search",
                  params |-> Some(<< <<"code", "069000019832,3017620422003">>,
                                     <<"fields", "url">> >>)] >>

(***************************************************************************)
(* Property of the V2 builder (SpecV2), continued.                         *)
(***************************************************************************)
AcceptedUnits == {"100g", "serving"}

\* The pair of a nutrient condition with the unit u, as stored.
NutrientPair(n, u, op, v) ==
    IF op = "=" THEN <<n \o "_" \o u, Value_Number(v)>>
    ELSE <<n \o "_" \o u \o op \o DecimalText(v), Value_None>>

\* C25: nutrient_100g(n, op, v) stores the pair of nutrient(n, "100g", op,
\* v), nutrient_serving(n, op, v) the pair of nutrient(n, "serving", op, v),
\* and the pair of every nutrient call of a V2 builder has the unit 100g or
\* serving: no other unit reaches the parameter list.
C25_OnlyAcceptedUnits ==
    \A j \in 1..Len(calls) :
       LET a == calls[j].args
       IN /\ calls[j].op = "nutrient_100g" =>
               Emitted(j) = << NutrientPair(a[1], "100g", a[2], a[3]) >>
          /\ calls[j].op = "nutrient_serving" =>
               Emitted(j) = << NutrientPair(a[1], "serving", a[2], a[3]) >>
          /\ calls[j].op = "nutrient" =>
               \E u \in AcceptedUnits :
                  Emitted(j) = << NutrientPair(a[1], u, a[3], a[4]) >>

(***************************************************************************)
(* Properties of both builders (SpecBuilders), continued.                  *)
(***************************************************************************)
\* The positions of the pairs named sort_by in a serialized list.
SortPairs(p) == {i \in 1..Len(p) : p[i][1] = "sort_by"}

\* The step is a call of sort_by.
IsSortByStep ==
    /\ Len(calls') = Len(calls) + 1
    /\ calls'[Len(calls')].op = "sort_by"

\* A serialized list has no sort_by pair when no sort_by call was made
\* before it and otherwise exactly one, of the last criterion, right after
\* the pairs of the other calls.
OneSortPair ==
    out.some =>
       LET p == out.val.params
           sorts == SortCalls(out.val.n)
           m == ParamsLenAfter(out.val.n)
       IN /\ sorts = {} => SortPairs(p) = {}
          /\ sorts # {} =>
               /\ SortPairs(p) = {m + 1}
               /\ p[m + 1][2] = SortText(calls[Max(sorts)].args[1])
               /\ \A i \in 1..m : p[i][1] = q.params[i][1]

\* C26: a sort_by call sets the sort field to its criterion and leaves the
\* accumulated pairs and the counters as they were; a serialized list, V0 or
\* V2, has no sort_by pair when no sort_by call was made and exactly one
\* otherwise, with the criterion of the last sort_by call and placed right
\* after all the pairs of the other calls, wherever the sort_by calls were
\* made.
C26_SingleSortField ==
    [][/\ IsSortByStep =>
            /\ q'.params = q.params
            /\ q'.state = q.state
            /\ q'.sort_by = Some(calls'[Len(calls')].args[1])
       /\ OneSortPair']_vars

\* A V0 builder sorted twice, by different criteria, with a criteria call
\* between the two: one sort_by pair, of the second criterion, after the
\* three pairs of the criteria call.
C26_Witness ==
    /\ client.v = "V0"
    /\ out.some
    /\ out.val.n = 3
    /\ <<calls[1].op, calls[2].op, calls[3].op>> = <<"sort_by", "criteria", "sort_by">>
    /\ calls[1].args = <<"Popularity">>
    /\ calls[3].args = <<"CreatedDate">>
    /\ Len(out.val.params) = 6
    /\ out.val.params[4] = <<"sort_by", "created_t">>
    /\ q.state = [criteria_index |-> 1, nutrient_index |-> 0]

(***************************************************************************)
(* Properties of the endpoint and search calls (SpecClient), continued.    *)
(***************************************************************************)
\* The positions of the pair pr in the list.
Positions(list, pr) == {i \in 1..Len(list) : list[i] = pr}

\* C27: in the list a V0 search hands to GET, ("action","process") and
\* ("json","true") occur once each, json right after action, and every
\* page, page_size or fields pair of the output options comes after them;
\* so when one of these three options is set, the list does not end with
\* action and json.
C27_ConstantsBeforeOutput ==
    (LastCall("search") /\ client.v = "V0" /\ WellFormed(CallLocale)) =>
       /\ Len(gets) = 1
       /\ gets[1].params.some
       /\ LET list == gets[1].params.val
              o == res.val.output
              anySet == /\ o.some
                        /\ (o.val.page.some \/ o.val.page_size.some \/ o.val.fields.some)
          IN /\ Cardinality(Positions(list, <<"action", "process">>)) = 1
             /\ Cardinality(Positions(list, <<"json", "true">>)) = 1
             /\ \A a \in Positions(list, <<"action", "process">>) :
                  /\ list[a + 1] = <<"json", "true">>
                  /\ \A i \in 1..Len(list) :
                       list[i][1] \in {"page", "page_size", "fields"} => i > a + 1
                  /\ anySet <=> a + 1 < Len(list)
             /\ anySet => list[Len(list)] # <<"json", "true">>

\* A V0 search of a query with a sort field, with the page option alone:
\* the list ends in sort_by, action, json, page.
C27_Witness ==
    /\ client.v = "V0"
    /\ LastCall("search")
    /\ res.val.args[1].sort_by.some
    /\ res.val.output.some
    /\ res.val.output.val.page = Some(22)
    /\ res.val.output.val.page_size = None
    /\ res.val.output.val.fields = None
    /\ Len(gets) = 1
    /\ LET list == gets[1].params.val
       IN SubSeq(list, Len(list) - 3, Len(list))
            = << <<"sort_by", "ecoscore_score">>, <<"action", "process">>,
                 <<"json", "true">>, <<"page", "22">> >>

(***************************************************************************)
(* Properties of the V0 builder (SpecV0), continued.                       *)
(***************************************************************************)

\* C28: a V0 list serialized after c criteria, i ingredient, n nutrient and
\* t terms calls has 3c + i + 3n + t + s + 2 pairs, s being 1 when a sort_by
\* call was made and 0 otherwise: every accumulated pair is in it, since no
\* accumulated entry is valueless; serialized without any call, the list is
\* ("action","process"), ("json","true").
C28_NoPairDropped ==
    /\ \A k \in 1..Len(q.params) : q.params[k][2].kind \in {"String", "Number"}
    /\ out.some =>
         LET made == out.val.n
             c == Count("criteria", made)
             i == Count("ingredient", made)
             n == Count("nutrient", made)
             t == Count("terms", made)
             s == IF SortCalls(made) = {} THEN 0 ELSE 1
             p == out.val.params
         IN /\ Len(p) = 3 * c + i + 3 * n + t + s + 2
            /\ Len(p) = ParamsLenAfter(made) + s + 2
            /\ made = 0 => p = << <<"action", "process">>, <<"json", "true">> >>

\* A criteria call, a nutrient call with the value 0 and a terms call,
\* serialized: 3 + 3 + 1 + 2 pairs, the pair of the value 0 among them.
C28_Witness ==
    /\ out.some
    /\ out.val.n = 3
    /\ <<calls[1].op, calls[2].op, calls[3].op>> = <<"criteria", "nutrient", "terms">>
    /\ calls[2].args[3] = 0
    /\ Len(out.val.params) = 9
    /\ out.val.params[6] = <<"nutriment_value_1", "0">>
    /\ out.val.params[7] = <<"search_terms", "cereal">>

(***************************************************************************)
(* Properties of both builders (SpecBuilders), continued.                  *)
(***************************************************************************)

\* C29: serializing a builder, V0 or V2, leaves its accumulated pairs, its
\* sort field and its counters as they were, and serializing a builder that
\* was serialized already, with no call in between, gives the same list
\* again.
C29_ParamsKeepsBuilder ==
    [][calls' = calls =>
         /\ q' = q
         /\ (out.some /\ out.val.n = Len(calls)) => out'.val.params = out.val.params]_vars

\* A V0 builder serialized after a criteria, a nutrient and a sort_by call:
\* it still has its six pairs, its sort field and its counters.
C29_Witness ==
    /\ client.v = "V0"
    /\ out.some
    /\ out.val.n = 3
    /\ Len(calls) = 3
    /\ Len(out.val.params) = 9
    /\ Len(q.params) = 6
    /\ q.sort_by.some
    /\ q.state = [criteria_index |-> 1, nutrient_index |-> 1]

(***************************************************************************)
(* Property of two builders of one client (SpecPair).                      *)
(***************************************************************************)
\* A builder as query() hands it out: no pairs, no sort field, and for V0
\* both counters at 0.
Fresh ==
    [params |-> <<>>, sort_by |-> None,
     state |-> IF client.v = "V0" THEN [criteria_index |-> 0, nutrient_index |-> 0]
               ELSE <<>>]

\* The builder after the call c made on the builder b0.
AfterCall(b0, c) ==
    LET a == c.args
    IN CASE c.op = "sort_by" -> SearchQuery_sort_by(b0, a[1])
         [] c.op = "criteria" /\ client.v = "V0" ->
              SearchQueryV0_criteria(b0, a[1], a[2], a[3])
         [] c.op = "criteria" /\ client.v = "V2" ->
              SearchQueryV2_criteria(b0, a[1], a[2], a[3])
         [] c.op = "nutrient" /\ client.v = "V0" ->
              SearchQueryV0_nutrient(b0, a[1], a[2], a[3])
         [] c.op = "nutrient" /\ client.v = "V2" ->
              SearchQueryV2_nutrient(b0, a[1], a[2], a[3], a[4])

\* The builder that the calls cs, made alone and in this order on a fresh
\* builder, give.
RECURSIVE Alone(_)
Alone(cs) ==
    IF cs = <<>> THEN Fresh
    ELSE AfterCall(Alone(SubSeq(cs, 1, Len(cs) - 1)), cs[Len(cs)])

ListOf(b0) ==
    IF client.v = "V0" THEN SearchQueryV0_params(b0) ELSE SearchQueryV2_params(b0)

\* C30: a builder on which no call was made yet is as query() makes it: no
\* pairs, no sort field, both V0 counters at 0, whatever was done with the
\* client's other builder before; and however the calls on two builders of
\* one client are interleaved, each builder is what its own calls alone
\* make of a fresh builder, and each serialized list is the list of the
\* builder's own calls made alone.
C30_BuildersIndependent ==
    \A b \in Slots :
       q[b].some =>
          /\ calls[b] = <<>> => q[b].val = Fresh
          /\ q[b].val = Alone(calls[b])
          /\ out[b].some =>
               out[b].val.params = ListOf(Alone(SubSeq(calls[b], 1, out[b].val.n)))

\* Two V0 builders with interleaved calls: criteria on the first, criteria
\* on the second, criteria on the first, nutrient on the second; the first
\* one's list has the suffixes 1 and 2, the second one's the suffix 1 twice.
C30_Witness ==
    /\ client.v = "V0"
    /\ Len(calls[1]) = 2 /\ Len(calls[2]) = 2
    /\ <<calls[1][1].op, calls[1][1].k>> = <<"criteria", 1>>
    /\ <<calls[2][1].op, calls[2][1].k>> = <<"criteria", 2>>
    /\ <<calls[1][2].op, calls[1][2].k>> = <<"criteria", 3>>
    /\ <<calls[2][2].op, calls[2][2].k>> = <<"nutrient", 4>>
    /\ out[1].some /\ out[1].val.n = 2
    /\ out[2].some /\ out[2].val.n = 2
    /\ out[1].val.params[4] = <<"tagtype_2", "brands">>
    /\ out[2].val.params[1] = <<"tagtype_1", "brands">>
    /\ out[2].val.params[4] = <<"nutriment_1", "fiber">>
    /\ Len(out[1].val.params) = 8 /\ Len(out[2].val.params) = 8

====
